---------------------------- MODULE Spec2Model ----------------------------
(***************************************************************************)
(* Verification model of the MPC validation core of zenopie/mpc-contract.  *)
(*                                                                         *)
(* One run of MPCValidator.validateTransition (mpc-node/src/crypto.js) is  *)
(* modelled as a state machine whose steps are the statements of the       *)
(* method in source order.  The values that flow through it are JavaScript *)
(* values (numbers, strings, undefined, NaN), and the JavaScript operators *)
(* the source applies to them (+, ===, *, template strings, parseInt,      *)
(* BigInt) are modelled by what they do on those values.                   *)
(*                                                                         *)
(* Two further specifications share the variables: LibSpec is one call of *)
(* a library function on arguments drawn in its initial state (the secure  *)
(* channel, the VSS verifier, the share splitters, the signature           *)
(* aggregator), NodeSpec the polling loop of mpc-node/index.js.            *)
(*                                                                         *)
(* SHA-256 is modelled as an injective function of its input (an ideal     *)
(* hash: equal digests iff equal inputs); nacl.box as an authenticated     *)
(* box under the Diffie-Hellman key shared by the two key pairs.           *)
(***************************************************************************)
EXTENDS Integers, Sequences, FiniteSets, TLC

(***************************************************************************)
(* Bounds of the model and constants of the program.                       *)
(***************************************************************************)
\* number of MPC nodes in the committee (node ids 1..NumNodes)
NumNodes == 2
\* nonce shares range over 0..MaxNonce (old) and 0..MaxNonce+1 (new)
MaxNonce == 1
\* number of ticks of the polling timer
MaxTicks == 2
\* threshold t of the t-of-n scheme
Threshold == 2
\* the challenge is reduced modulo this range
ChallengeRange == 1000000
\* nacl.box.nonceLength and the Poly1305 tag length, in bytes
NonceLength == 24
MacLength == 16
\* padStart(16, '0') of the hex encoding
HexWidth == 16
\* Buffer.alloc(32): the length of a signature digest, in bytes
DigestLength == 32

(***************************************************************************)
(* JavaScript values.  A number is hi * 2^63 + v; the doubles the model    *)
(* uses are the small integers (hi = 0) and the multiples of 2^63 (v = 0): *)
(* adding a small integer to a non-zero multiple of 2^63 rounds back to    *)
(* that multiple (the spacing of doubles there is at least 1024).          *)
(***************************************************************************)
Num(n)  == [k |-> "num", hi |-> 0, v |-> n, s |-> <<>>]
Big(h)  == [k |-> "num", hi |-> h, v |-> 0, s |-> <<>>]
Str(cs) == [k |-> "str", hi |-> 0, v |-> 0, s |-> cs]
Undef   == [k |-> "undef", hi |-> 0, v |-> 0, s |-> <<>>]
NaN     == [k |-> "nan", hi |-> 0, v |-> 0, s |-> <<>>]
Null    == [k |-> "null", hi |-> 0, v |-> 0, s |-> <<>>]

\* 2^63 and -2^63 as doubles
BIG    == Big(1)
NEGBIG == Big(-1)

HexChars == <<"0", "1", "2", "3", "4", "5", "6", "7", "8", "9",
              "a", "b", "c", "d", "e", "f">>
DecChars == {HexChars[i] : i \in 1..10}
HexCharSet == {HexChars[i] : i \in 1..16}
HexVal(c) == (CHOOSE i \in 1..16 : HexChars[i] = c) - 1

RECURSIVE Digits(_, _)
\* the digits of n >= 0 in the given radix, most significant first
Digits(n, radix) ==
    IF n < radix THEN <<HexChars[n + 1]>>
    ELSE Append(Digits(n \div radix, radix), HexChars[(n % radix) + 1])

\* Number.prototype.toString(radix) of an integer
IntToString(n, radix) ==
    IF n < 0 THEN <<"-">> \o Digits(-n, radix) ELSE Digits(n, radix)

RECURSIVE padStart(_, _, _)
\* String.prototype.padStart
padStart(cs, width, c) ==
    IF Len(cs) >= width THEN cs ELSE padStart(<<c>> \o cs, width, c)

\* String(x) / the template string `${x}` of a number
NumToString(x) ==
    IF x.hi = 0 THEN IntToString(x.v, 10)
    ELSE IF x.hi = 1
         THEN <<"9","2","2","3","3","7","2","0","3","6","8","5","4","7","7",
                "6","0","0","0">>
    ELSE IF x.hi = -1
         THEN <<"-","9","2","2","3","3","7","2","0","3","6","8","5","4","7",
                "7","6","0","0","0">>
    ELSE <<"2^63*">> \o IntToString(x.hi, 10)

\* ToString of a JavaScript value
JsToString(x) ==
    CASE x.k = "str" -> x.s
      [] x.k = "num" -> NumToString(x)
      [] x.k = "nan" -> <<"N", "a", "N">>
      [] x.k = "null" -> <<"n", "u", "l", "l">>
      [] OTHER -> <<"u","n","d","e","f","i","n","e","d">>

RECURSIVE ValueOf(_, _)
\* the value of a non-empty sequence of digits in the given radix
ValueOf(cs, radix) ==
    IF Len(cs) = 0 THEN 0
    ELSE ValueOf(SubSeq(cs, 1, Len(cs) - 1), radix) * radix + HexVal(cs[Len(cs)])

AllIn(cs, S) == \A i \in 1..Len(cs) : cs[i] \in S
HasPrefix0x(cs) == Len(cs) >= 2 /\ cs[1] = "0" /\ cs[2] = "x"

\* StringToNumber (ToNumber of a string) on the model's alphabet
\* (digits, a-f, "-", "x"): "" is 0, a decimal literal with optional sign,
\* a 0x hex literal without sign, anything else NaN.
StringToNumber(cs) ==
    IF Len(cs) = 0 THEN Num(0)
    ELSE IF AllIn(cs, DecChars) THEN Num(ValueOf(cs, 10))
    ELSE IF cs[1] = "-" /\ Len(cs) > 1 /\ AllIn(Tail(cs), DecChars)
         THEN Num(-ValueOf(Tail(cs), 10))
    ELSE IF HasPrefix0x(cs) /\ Len(cs) > 2 /\ AllIn(SubSeq(cs, 3, Len(cs)), HexCharSet)
         THEN Num(ValueOf(SubSeq(cs, 3, Len(cs)), 16))
    ELSE NaN

\* ToNumber
JsToNumber(x) ==
    CASE x.k = "num" -> x
      [] x.k = "str" -> StringToNumber(x.s)
      [] x.k = "null" -> Num(0)
      [] OTHER -> NaN

\* the double nearest to hi * 2^63 + v
Norm(hi, v) == IF hi # 0 THEN Big(hi) ELSE Num(v)

NumAdd(a, b) ==
    IF a.k = "nan" \/ b.k = "nan" THEN NaN ELSE Norm(a.hi + b.hi, a.v + b.v)
NumSub(a, b) ==
    IF a.k = "nan" \/ b.k = "nan" THEN NaN ELSE Norm(a.hi - b.hi, a.v - b.v)
\* one of the factors is a small integer wherever the source multiplies
NumMul(a, b) ==
    IF a.k = "nan" \/ b.k = "nan" THEN NaN
    ELSE Norm(a.hi * b.v + a.v * b.hi, a.v * b.v)

\* a + b: string concatenation when either operand is a string
JsAdd(a, b) ==
    IF a.k = "str" \/ b.k = "str" THEN Str(JsToString(a) \o JsToString(b))
    ELSE NumAdd(JsToNumber(a), JsToNumber(b))
\* a - b and a * b convert both operands to numbers
JsSub(a, b) == NumSub(JsToNumber(a), JsToNumber(b))
JsMul(a, b) == NumMul(JsToNumber(a), JsToNumber(b))
\* a === b: same type and same value, NaN equal to nothing
JsStrictEq(a, b) == a.k # "nan" /\ a = b


(***************************************************************************)
(* Results of operations that may throw: a value or an exception message.  *)
(* Messages are the text of Error.message, shortened where Node puts the   *)
(* offending value into it.                                                *)
(***************************************************************************)
Ok(val)    == [thrown |-> FALSE, msg |-> "", val |-> val]
Throw(m)   == [thrown |-> TRUE, msg |-> m, val |-> Undef]

(***************************************************************************)
(* Hex-encoded shares.                                                     *)
(***************************************************************************)
RECURSIVE HexPrefix(_)
\* the longest prefix of hex digits
HexPrefix(cs) ==
    IF Len(cs) = 0 \/ cs[1] \notin HexCharSet THEN <<>>
    ELSE <<cs[1]>> \o HexPrefix(Tail(cs))

\* parseInt(cs, 16): optional sign, optional 0x, then the longest run of
\* hex digits; NaN when there is none
parseInt16(cs) ==
    LET neg    == Len(cs) > 0 /\ cs[1] = "-"
        body   == IF neg THEN Tail(cs) ELSE cs
        clean  == IF HasPrefix0x(body) THEN SubSeq(body, 3, Len(body)) ELSE body
        digits == HexPrefix(clean)
    IN  IF Len(digits) = 0 THEN NaN
        ELSE Num(IF neg THEN -ValueOf(digits, 16) ELSE ValueOf(digits, 16))

\* hexShare.startsWith throws a TypeError unless hexShare is a string
hexShareToNumber(hexShare) ==
    IF hexShare.k = "undef"
    THEN Throw("Cannot read properties of undefined (reading 'startsWith')")
    ELSE IF hexShare.k = "null"
    THEN Throw("Cannot read properties of null (reading 'startsWith')")
    ELSE IF hexShare.k # "str"
    THEN Throw("hexShare.startsWith is not a function")
    ELSE LET cleanHex == IF HasPrefix0x(hexShare.s)
                         THEN SubSeq(hexShare.s, 3, Len(hexShare.s))
                         ELSE hexShare.s
         IN  Ok(parseInt16(cleanHex))

\* value.toString(16).padStart(16, '0') of the hex-encoding prover
toHexShare(n) == Str(padStart(IntToString(n, 16), HexWidth, "0"))

(***************************************************************************)
(* hashShares: BigInt(x) and Buffer.writeBigInt64LE both throw.            *)
(***************************************************************************)
\* BigInt(x): the exact integer, or the exception
toBigInt(x) ==
    CASE x.k = "num"   -> Ok(x)
      [] x.k = "nan"   -> Throw("The number NaN cannot be converted to a BigInt because it is not an integer")
      [] x.k = "undef" -> Throw("Cannot convert undefined to a BigInt")
      [] x.k = "null"  -> Throw("Cannot convert null to a BigInt")
      [] OTHER         -> IF StringToNumber(x.s).k = "nan"
                          THEN Throw("Cannot convert string to a BigInt")
                          ELSE Ok(StringToNumber(x.s))

\* the range check of writeBigInt64LE: -(2^63) <= value < 2^63
fitsInt64(x) == x.hi = 0 \/ (x.hi = -1 /\ x.v = 0)

hashShares(balance, nonce) ==
    LET b == toBigInt(balance)
        n == toBigInt(nonce)
    IN  IF b.thrown THEN b
        ELSE IF ~fitsInt64(b.val) THEN Throw("The value of \"value\" is out of range.")
        ELSE IF n.thrown THEN n
        ELSE IF ~fitsInt64(n.val) THEN Throw("The value of \"value\" is out of range.")
        ELSE Ok(Str(<<"sha256(">> \o NumToString(b.val) \o <<",">>
                    \o NumToString(n.val) \o <<")">>))

(***************************************************************************)
(* Key pairs and the secure channel.  A key pair is named by its owner;    *)
(* nacl.box encrypts under the Diffie-Hellman key of (public key, private  *)
(* key), which is the same for (pkA, skB) and (pkB, skA).                  *)
(***************************************************************************)
UserKey     == <<"user", 0>>
MalloryKey  == <<"mallory", 0>>
\* a key that is not 32 bytes long
ShortKey    == <<"short", 0>>
NodeKey(i)  == <<"node", i>>

\* a key agreement that depends on which side holds the private key
sharedKeyOneSided(publicKey, privateKey) == <<publicKey, privateKey>>

\* the Diffie-Hellman key of a public key and a private key
sharedKey(publicKey, privateKey) == {publicKey, privateKey}

ShareFields == <<"old_balance_share", "new_balance_share", "amount_share",
                 "old_nonce_share", "new_nonce_share", "gamma">>
FieldNameLen == <<17, 17, 12, 15, 15, 5>>

Bundle(ob, nb, am, on, nn, g) ==
    [old_balance_share |-> ob, new_balance_share |-> nb, amount_share |-> am,
     old_nonce_share |-> on, new_nonce_share |-> nn, gamma |-> g]

FieldOf(b, i) ==
    CASE i = 1 -> b.old_balance_share [] i = 2 -> b.new_balance_share
      [] i = 3 -> b.amount_share      [] i = 4 -> b.old_nonce_share
      [] i = 5 -> b.new_nonce_share   [] OTHER -> b.gamma

RECURSIVE SumOver(_, _)
SumOver(f, n) == IF n = 0 THEN 0 ELSE f[n] + SumOver(f, n - 1)

\* the length of JSON.stringify(bundle): undefined fields are left out
JsonLength(b) ==
    LET present == {i \in 1..6 : FieldOf(b, i).k # "undef"}
        len == [i \in 1..6 |->
                 IF i \notin present THEN 0
                 ELSE FieldNameLen[i] + 3
                      + (IF FieldOf(b, i).k = "str" THEN Len(FieldOf(b, i).s) + 2
                         ELSE IF FieldOf(b, i).k \in {"nan", "null"} THEN 4
                         ELSE Len(NumToString(FieldOf(b, i))))]
    IN  2 + SumOver(len, 6)
        + (IF Cardinality(present) > 0 THEN Cardinality(present) - 1 ELSE 0)

\* plaintexts: the JSON text of a bundle, the JSON text "null", or bytes
\* that are not JSON
\* a field through JSON.stringify and JSON.parse: a NaN is written as null,
\* a number as its decimal text and read back from it (a double beyond
\* 2^63 comes back as the same double), an undefined field is left out
JsonField(x) ==
    CASE x.k = "nan" -> Null
      [] x.k = "num" /\ x.hi = 0 -> StringToNumber(NumToString(x))
      [] OTHER -> x
JsonOf(b)    == [kind |-> "object",
                 obj |-> [f \in DOMAIN b |-> JsonField(b[f])],
                 len |-> JsonLength(b)]
JsonNull     == [kind |-> "null", obj |-> Bundle(Undef, Undef, Undef, Undef, Undef, Undef), len |-> 4]
NotJson      == [kind |-> "garbage", obj |-> Bundle(Undef, Undef, Undef, Undef, Undef, Undef), len |-> 4]

\* nacl.box(message, nonce, recipientPublicKey, senderPrivateKey)
box(message, nonce, publicKey, privateKey) ==
    [key |-> sharedKey(publicKey, privateKey), nonce |-> nonce,
     message |-> message, damaged |-> FALSE]

\* base64 of nonce || ciphertext.  The last character of the token carries
\* unused bits (and "=" padding follows) when the byte length is not a
\* multiple of 3; Buffer.from(.., 'base64') ignores them.  slack is the
\* value of those bits: 0 as encoded.
base64Encode(nonce, encrypted) ==
    [nonce |-> nonce, encrypted |-> encrypted, slack |-> 0]

\* encryptForRecipient with the random nonce given
encryptForRecipient(message, nonce, recipientPublicKey, senderPrivateKey) ==
    base64Encode(nonce, box(message, nonce, recipientPublicKey, senderPrivateKey))

\* whether the token has bits that do not reach the decoded bytes
HasSlack(token) ==
    (NonceLength + MacLength + token.encrypted.message.len) % 3 # 0

\* a box that opens whatever its nonce and authenticator
boxOpensUnauthenticated(encrypted, nonce, publicKey, privateKey) ==
    encrypted.key = sharedKey(publicKey, privateKey)

\* nacl.box.open returns the plaintext when the authenticator verifies:
\* the ciphertext and the nonce are the ones of encryption and the key is
\* the shared key of encryption; it returns null otherwise
boxOpens(encrypted, nonce, publicKey, privateKey) ==
    /\ ~encrypted.damaged
    /\ encrypted.nonce = nonce
    /\ encrypted.key = sharedKey(publicKey, privateKey)

\* decryptFromSender: the parsed plaintext, or the exception
decryptFromSender(token, senderPublicKey, recipientPrivateKey) ==
    IF senderPublicKey = ShortKey THEN Throw("bad public key size")
    ELSE IF recipientPrivateKey = ShortKey THEN Throw("bad secret key size")
    ELSE IF token.nonce = "short" THEN Throw("bad nonce size")
    ELSE IF ~boxOpens(token.encrypted, token.nonce, senderPublicKey, recipientPrivateKey)
         THEN Throw("Decryption failed")
    ELSE IF token.encrypted.message.kind = "garbage"
         THEN Throw("Unexpected token in JSON at position 0")
    ELSE [thrown |-> FALSE, msg |-> "", val |-> token.encrypted.message]

(***************************************************************************)
(* Baghery's hash-based VSS.  A digest is modelled by the string that was  *)
(* hashed.  A VSS field of a transition is a list, a value of the wrong    *)
(* type (a non-zero number) or absent.                                     *)
(***************************************************************************)
List(items) == [k |-> "list", items |-> items]
WrongType   == [k |-> "num", items |-> <<>>]
Absent      == [k |-> "undef", items |-> <<>>]

\* H(v || r || gamma) = SHA256(`${v}|${r}|${gamma}`)
hashCommitment(v, r, gamma) ==
    JsToString(v) \o <<"|">> \o JsToString(r) \o <<"|">> \o JsToString(gamma)

Alphabet == HexChars \o <<"-", "|", "x", "N", "u", "n", "i", "#", "2^63*", "l">>
CharCode(c) == CHOOSE i \in 1..Len(Alphabet) : Alphabet[i] = c

\* stands for the compression of SHA-256 over one digest: a fold over its
\* characters
MixChars(cs) ==
    LET f[i \in 0..Len(cs)] ==
            IF i = 0 THEN 7 ELSE (f[i - 1] * 31 + CharCode(cs[i])) % 4000037
    IN  f[Len(cs)]

\* the same fold over the concatenated digests
MixDigests(ds) ==
    LET g[j \in 0..Len(ds)] ==
            IF j = 0 THEN 29 ELSE (g[j - 1] * 131 + MixChars(ds[j])) % 4000037
    IN  g[Len(ds)]

\* a % m of BigInt: the remainder has the sign of the dividend
Rem(a, m) == IF a >= 0 THEN a % m ELSE -((-a) % m)

\* d = Number(readBigInt64BE(SHA256(c_1 || ... || c_n)) % 1000000n):
\* a function of the ordered commitment list alone, of either sign
\* the first 8 bytes of a digest read as a signed 64-bit integer, the most
\* significant byte first or last (DataView.getBigInt64(0, littleEndian))
getBigInt64(h, littleEndian) ==
    IF littleEndian THEN ((h * 523) % 4000037) - 2000018 ELSE h - 2000018

readBigInt64LE(h) == getBigInt64(h, TRUE)
\* Buffer.readBigInt64BE(0)
readBigInt64BE(h) == getBigInt64(h, FALSE)

challengeOf(commitments) ==
    Rem(readBigInt64BE(MixDigests(commitments)), ChallengeRange)

RECURSIVE evalFrom(_, _, _, _, _)
\* the loop of evaluatePolynomial from index i on
evalFrom(coefficients, x, i, result, xPower) ==
    IF i > Len(coefficients) THEN result
    ELSE evalFrom(coefficients, x, i + 1,
                  NumAdd(result, JsMul(coefficients[i], xPower)),
                  NumMul(xPower, x))

\* evaluatePolynomial: coefficients.length is undefined for a value that is
\* no array, and the loop does not run; Math.floor of an integer or NaN is
\* the value itself
evaluatePolynomial(poly, x) ==
    IF poly.k # "list" THEN Num(0)
    ELSE evalFrom(poly.items, Num(x), 1, Num(0), Num(1))

\* verifyVSSShare: the verdict, and the exception its own try/catch
\* swallowed (exc = "" when none was thrown)
verifyVSSShare(nodeId, share, gamma, commitments, proofPolynomial) ==
    IF commitments.k # "list"
    THEN [valid |-> FALSE, exc |-> "commitments.map is not a function"]
    ELSE LET d      == challengeOf(commitments.items)
             zValue == evaluatePolynomial(proofPolynomial, nodeId)
             rValue == JsSub(zValue, JsMul(Num(d), share))
             expectedCommitment == hashCommitment(share, rValue, gamma)
         IN  IF nodeId > Len(commitments.items)
             THEN [valid |-> FALSE,
                   exc |-> "The first argument must be of type string or an instance of Buffer"]
             ELSE [valid |-> expectedCommitment = commitments.items[nodeId],
                   exc |-> ""]

\* verifyTransitionVSS: {valid, reason}, and the swallowed exception
verifyTransitionVSS(nodeId, shares, transition) ==
    IF transition.vss_commitments.k = "undef" \/ transition.vss_proof_polynomial.k = "undef"
    THEN [valid |-> FALSE, reason |-> "VSS proof missing from transition", exc |-> ""]
    ELSE IF shares.gamma.k \in {"undef", "null"}
    THEN [valid |-> FALSE, reason |-> "Gamma missing from encrypted shares", exc |-> ""]
    ELSE LET vss == verifyVSSShare(nodeId, shares.new_balance_share, shares.gamma,
                                   transition.vss_commitments,
                                   transition.vss_proof_polynomial)
         IN  IF ~vss.valid
             THEN [valid |-> FALSE, reason |-> "VSS verification failed for balance share",
                   exc |-> vss.exc]
             ELSE [valid |-> TRUE, reason |-> "VSS verification passed", exc |-> ""]

\* generateShamirShares with the random coefficients given: P = [secret] \o coeffs
ShamirPolynomial(secret, coeffs) == List(<<secret>> \o [i \in 1..Len(coeffs) |-> Num(coeffs[i])])
generateShamirShares(secret, coeffs, numShares) ==
    [i \in 1..numShares |-> evaluatePolynomial(ShamirPolynomial(secret, coeffs), i)]

\* generateVSSProof with its random draws given: the coefficients of P and
\* of R past the constant term, and one gamma per node
generateVSSProof(secret, pCoeffs, rCoeffs, gammas, numNodes) ==
    LET P       == ShamirPolynomial(secret, pCoeffs)
        R       == ShamirPolynomial(Num(0), rCoeffs)
        pShares == generateShamirShares(secret, pCoeffs, numNodes)
        rShares == generateShamirShares(Num(0), rCoeffs, numNodes)
        commitments == [i \in 1..numNodes |->
                          hashCommitment(pShares[i], rShares[i], Num(gammas[i]))]
        d       == Rem(getBigInt64(MixDigests(commitments), FALSE), ChallengeRange)
        Z       == [i \in 1..Len(P.items) |->
                      NumAdd(R.items[i], NumMul(Num(d), P.items[i]))]
    IN  [shares |-> pShares, gammas |-> [i \in 1..numNodes |-> Num(gammas[i])],
         commitments |-> commitments, proofPolynomial |-> Z, challenge |-> d]

(***************************************************************************)
(* The validator.  validator is the MPCValidator object (which of the two  *)
(* classes, and its fields); call holds the arguments of the one call of   *)
(* validateTransition; state is the position of the run; shares the        *)
(* decrypted bundle; nums the numbers the checks compute with (the bundle  *)
(* itself in the numeric validator, the hexShareToNumber conversions in    *)
(* the hex-share validator); result the ValidationResult returned; caught  *)
(* the exception a catch block received in this run, and where; sent the   *)
(* envelope as encryptForRecipient made it, with the keys it was made with.*)
(***************************************************************************)
VARIABLES validator, call, sent, state, shares, nums, result, caught,
          lib, node

vars == <<validator, call, sent, state, shares, nums, result, caught, lib, node>>

\* lib is the call of a library function under examination (its name, its
\* arguments and, once it has run, what it gave); node is the polling
\* process of index.js.  Neither takes part in a run of validateTransition.
NoCall == [fn |-> "none", done |-> FALSE]
NoNode == [running |-> FALSE]

NullSig   == [null |-> TRUE, pre |-> <<>>]
NoBundle  == Bundle(Undef, Undef, Undef, Undef, Undef, Undef)
NoResult  == [returned |-> FALSE, valid |-> FALSE,
              reason |-> [err |-> FALSE, text |-> ""], partialSignature |-> NullSig]
NoCatch   == [msg |-> "", inVss |-> FALSE]

\* a reason string as the source writes it, and `Error: ${error.message}`
Reason(text)      == [err |-> FALSE, text |-> text]
ErrorReason(msg)  == [err |-> TRUE, text |-> msg]

\* a signature that also takes in what the validator did before
generatePartialSignatureStateful(data, privateKey, nodeId) ==
    [null |-> FALSE, pre |-> <<data, nodeId % 256, privateKey, lib.fn>>]

\* generatePartialSignature: SHA256(JSON.stringify(data) || [nodeId] || privateKey)
generatePartialSignature(data, privateKey, nodeId) ==
    [null |-> FALSE, pre |-> <<data, nodeId % 256, privateKey>>]

\* return { valid: false, reason, partialSignature: null }
Rejection(reason) ==
    [returned |-> TRUE, valid |-> FALSE, reason |-> reason, partialSignature |-> NullSig]

\* a catch block that lets the exception go: nothing is returned
catchErrorRethrows(msg) ==
    [returned |-> FALSE, valid |-> FALSE, reason |-> ErrorReason(msg),
     partialSignature |-> NullSig]

\* the catch block of validateTransition
catchError(msg) == Rejection(ErrorReason(msg))

\* an acceptance that leaves the signature out
AcceptanceUnsigned(partialSignature) ==
    [returned |-> TRUE, valid |-> TRUE, reason |-> Reason("All checks passed"),
     partialSignature |-> NullSig]

\* return { valid: true, reason: 'All checks passed', partialSignature }
Acceptance(partialSignature) ==
    [returned |-> TRUE, valid |-> TRUE, reason |-> Reason("All checks passed"),
     partialSignature |-> partialSignature]

Terminal == {"SIGNED", "REJECTED"}
\* the states in which a statement of the method is still to run
Running  == {"RECEIVED", "DECRYPTED", "VSS_VERIFIED", "ARITHMETIC_VERIFIED"}

\* the run ends with a rejection
Reject(res, exc) ==
    /\ state' = "REJECTED"
    /\ result' = res
    /\ caught' = exc

\* a step that jumps to the end of the chain
AdvanceToEnd(next) ==
    /\ state' = "SIGNED"
    /\ UNCHANGED <<result, caught>>

\* the run moves on to the next state
Advance(next) ==
    /\ state' = next
    /\ UNCHANGED <<result, caught>>

\* step 1: decryptFromSender, and the log line that reads the fields of the
\* parsed value (a TypeError when the plaintext was the JSON text null)
Decrypt ==
    /\ state = "RECEIVED"
    /\ LET d == decryptFromSender(call.encryptedShares, call.senderPublicKey,
                                  validator.privateKey)
       IN  IF d.thrown
           THEN /\ Reject(catchError(d.msg), [msg |-> d.msg, inVss |-> FALSE])
                /\ UNCHANGED shares
           ELSE IF d.val.kind = "null"
           THEN /\ Reject(catchError("Cannot read properties of null (reading 'old_balance_share')"),
                          [msg |-> "Cannot read properties of null (reading 'old_balance_share')",
                           inVss |-> FALSE])
                /\ UNCHANGED shares
           ELSE /\ shares' = d.val.obj
                /\ Advance("DECRYPTED")
    /\ UNCHANGED <<lib, node, validator, call, sent, nums>>

\* the six hexShareToNumber conversions of the hex-share validator, in
\* source order: the first exception, or the converted bundle
convertShares(b) ==
    LET c == [i \in 1..6 |->
                hexShareToNumber(CASE i = 1 -> b.old_balance_share
                                   [] i = 2 -> b.new_balance_share
                                   [] i = 3 -> b.amount_share
                                   [] i = 4 -> b.old_nonce_share
                                   [] i = 5 -> b.new_nonce_share
                                   [] OTHER -> b.gamma)]
        bad == {i \in 1..6 : c[i].thrown}
    IN  IF bad # {}
        THEN c[CHOOSE i \in bad : \A j \in bad : i <= j]
        ELSE [thrown |-> FALSE, msg |-> "",
              val |-> Bundle(c[1].val, c[2].val, c[3].val, c[4].val, c[5].val, c[6].val)]

\* step 2: verifyTransitionVSS on the bundle (numeric validator) or on its
\* conversions (hex-share validator)
VerifyVSS ==
    /\ state = "DECRYPTED"
    /\ LET conv == IF validator.variant = "hex" THEN convertShares(shares)
                   ELSE [thrown |-> FALSE, msg |-> "", val |-> shares]
       IN  IF conv.thrown
           THEN /\ Reject(catchError(conv.msg), [msg |-> conv.msg, inVss |-> FALSE])
                /\ UNCHANGED nums
           ELSE LET vssResult == verifyTransitionVSS(validator.nodeId, conv.val,
                                                     call.transition)
                IN  /\ nums' = conv.val
                    /\ IF ~vssResult.valid
                       THEN Reject(Rejection(Reason(vssResult.reason)),
                                   [msg |-> vssResult.exc, inVss |-> vssResult.exc # ""])
                       ELSE Advance("VSS_VERIFIED")
    /\ UNCHANGED <<lib, node, validator, call, sent, shares>>

\* old_balance_share + amount_share !== new_balance_share
balanceEquationFails(b) ==
    ~JsStrictEq(JsAdd(b.old_balance_share, b.amount_share), b.new_balance_share)

isInitialization(b) ==
    /\ JsStrictEq(b.old_balance_share, Num(0))
    /\ JsStrictEq(b.old_nonce_share, Num(0))
    /\ JsStrictEq(b.new_nonce_share, Num(0))

\* !isInitialization && new_nonce_share !== old_nonce_share + 1
nonceCheckFails(b) ==
    /\ ~isInitialization(b)
    /\ ~JsStrictEq(b.new_nonce_share, JsAdd(b.old_nonce_share, Num(1)))

\* the two checks the other way round: the nonce check, then the balance
\* equation
CheckArithmeticNonceFirst ==
    /\ state = "VSS_VERIFIED"
    /\ IF nonceCheckFails(nums)
       THEN Reject(Rejection(Reason("Nonce not incremented correctly on share")), NoCatch)
       ELSE IF balanceEquationFails(nums)
       THEN Reject(Rejection(Reason("Balance equation failed on share")), NoCatch)
       ELSE Advance("ARITHMETIC_VERIFIED")
    /\ UNCHANGED <<lib, node, validator, call, sent, shares, nums>>

\* steps 3 and 4: the balance equation, then the nonce check
CheckArithmetic ==
    /\ state = "VSS_VERIFIED"
    /\ IF balanceEquationFails(nums)
       THEN Reject(Rejection(Reason("Balance equation failed on share")), NoCatch)
       ELSE IF nonceCheckFails(nums)
       THEN Reject(Rejection(Reason("Nonce not incremented correctly on share")), NoCatch)
       ELSE Advance("ARITHMETIC_VERIFIED")
    /\ UNCHANGED <<lib, node, validator, call, sent, shares, nums>>

\* steps 5 and 6: the two hashShares calls, then the partial signature
Sign ==
    /\ state = "ARITHMETIC_VERIFIED"
    /\ LET oldHashCommitment == hashShares(nums.old_balance_share, nums.old_nonce_share)
           newHashCommitment == hashShares(nums.new_balance_share, nums.new_nonce_share)
       IN  IF oldHashCommitment.thrown
           THEN Reject(catchError(oldHashCommitment.msg),
                       [msg |-> oldHashCommitment.msg, inVss |-> FALSE])
           ELSE IF newHashCommitment.thrown
           THEN Reject(catchError(newHashCommitment.msg),
                       [msg |-> newHashCommitment.msg, inVss |-> FALSE])
           ELSE /\ state' = "SIGNED"
                /\ result' = Acceptance(generatePartialSignature(
                                 <<call.transition, shares>>,
                                 validator.privateKey, validator.nodeId))
                /\ UNCHANGED caught
    /\ UNCHANGED <<lib, node, validator, call, sent, shares, nums>>

Next == Decrypt \/ VerifyVSS \/ CheckArithmetic \/ Sign

(***************************************************************************)
(* The inputs of one run.  A proof is what generateVSSProof returns for a  *)
(* secret and its random draws; a bundle is what the client puts in the    *)
(* envelope of one node, honest or not; the transition carries the two     *)
(* public VSS fields.                                                      *)
(***************************************************************************)
Secrets      == {0, 10}
Coefficients == {0, 1}
Gammas       == {3}

\* proofs of small secrets
SmallProofs ==
    { generateVSSProof(Num(secret), p, r, g, NumNodes) :
        secret \in Secrets,
        p \in [1..(Threshold - 1) -> Coefficients],
        r \in [1..(Threshold - 1) -> {1}],
        g \in [1..NumNodes -> Gammas] }

\* proofs of the secrets 2^63 and -2^63, all random coefficients drawn 0
BigProofs ==
    { generateVSSProof(secret, [j \in 1..(Threshold - 1) |-> 0],
                       [j \in 1..(Threshold - 1) |-> 0], g, NumNodes) :
        secret \in {BIG, NEGBIG}, g \in [1..NumNodes -> Gammas] }

Variants == {"numeric", "hex"}

\* the hex encoding is modelled for small shares
ProofsFor(variant) ==
    IF variant = "hex" THEN SmallProofs ELSE SmallProofs \cup BigProofs

Validator(variant, nodeId) ==
    [variant |-> variant, nodeId |-> nodeId,
     privateKey |-> NodeKey(nodeId), publicKey |-> NodeKey(nodeId)]

\* the transition object: the public VSS values, and one envelope per node
\* (the validator is handed its own separately; an envelope is here the
\* node it is for and which version of it was published)
Transition(commitments, polynomial) ==
    [vss_commitments |-> commitments, vss_proof_polynomial |-> polynomial,
     encrypted_shares |-> [j \in 1..NumNodes |-> <<"envelope", j, 0>>]]

HonestTransition(proof) ==
    Transition(List(proof.commitments), List(proof.proofPolynomial))

\* the bundles a client can send to the numeric validator of node i
NumericBundles(proof, i) ==
    LET v == proof.shares[i]
    IN  { Bundle(ob, nb, am, on, nn, g) :
            ob \in {Num(0), Num(1), Str(<<"1">>), BIG},
            nb \in {v, NumAdd(v, Num(1)), Num(0)}
                   \cup (IF v.hi = 0 THEN {Str(NumToString(v))} ELSE {}),
            am \in {v, NumSub(v, Num(1)), Num(1), Str(<<"1">>), NEGBIG},
            on \in {Num(n) : n \in 0..MaxNonce} \cup {Str(<<"1">>), NEGBIG, BIG},
            nn \in {Num(n) : n \in 0..(MaxNonce + 1)} \cup {Str(<<"1", "1">>), NEGBIG, BIG},
            g  \in {proof.gammas[i], NumAdd(proof.gammas[i], Num(1)), Undef} }

\* the bundles a client can send to the hex-share validator of node i
HexBundles(proof, i) ==
    LET v == proof.shares[i]
    IN  { Bundle(ob, nb, am, on, nn, g) :
            ob \in {Str(<<"0">>), toHexShare(1), Num(0)},
            nb \in {toHexShare(v.v), toHexShare(v.v + 1)},
            am \in {toHexShare(v.v), toHexShare(1)},
            on \in {Str(<<"0">>), toHexShare(1)},
            nn \in {Str(<<"0">>), toHexShare(1), toHexShare(2)},
            g  \in {toHexShare(proof.gammas[i].v), Undef} }

BundlesFor(variant, proof, i) ==
    IF variant = "hex" THEN HexBundles(proof, i) ELSE NumericBundles(proof, i)

\* the honest bundles of an initialization and of a later deposit
SampleBundles(variant, proof, i) ==
    LET v == proof.shares[i]
        g == proof.gammas[i]
    IN  IF variant = "hex"
        THEN { Bundle(Str(<<"0">>), toHexShare(v.v), toHexShare(v.v), Str(<<"0">>), Str(<<"0">>),
                      toHexShare(g.v)),
               Bundle(toHexShare(1), toHexShare(v.v), toHexShare(v.v), Str(<<"0">>),
                      toHexShare(1), toHexShare(g.v)) }
        ELSE { Bundle(Num(0), v, v, Num(0), Num(0), g),
               Bundle(Num(1), v, NumSub(v, Num(1)), Num(0), Num(1), g),
               Bundle(Num(0), v, v, Num(0), Num(1), Undef) }

\* the envelope a sender makes for a recipient, and what then happens to
\* it on the way
Envelope(message, recipientPublicKey, senderPrivateKey) ==
    [token |-> encryptForRecipient(message, "n0", recipientPublicKey, senderPrivateKey),
     recipientPublicKey |-> recipientPublicKey,
     senderPrivateKey |-> senderPrivateKey]

Start(v, transition, envelope, token, senderPublicKey) ==
    /\ validator = v
    /\ call = [transition |-> transition, encryptedShares |-> token,
               senderPublicKey |-> senderPublicKey]
    /\ sent = envelope
    /\ state = "RECEIVED"
    /\ shares = NoBundle
    /\ nums = NoBundle
    /\ result = NoResult
    /\ caught = NoCatch
    /\ lib = NoCall
    /\ node = NoNode

(***************************************************************************)
(* The share splitters.  Their numbers are doubles; the model takes them   *)
(* around 0 and around 2^53, where the spacing of doubles becomes 2: a     *)
(* number is h * 2^53 + v with h in -1..1 and v small.                     *)
(***************************************************************************)
\* the double nearest to h * 2^53 + v.  Below 2^53 in magnitude every
\* integer is a double; from 2^53 on the doubles are the even integers,
\* and an odd one rounds to the neighbour whose significand is even
\* (the multiple of 4)
Double(h, v) ==
    IF h = 0 \/ (h = 1 /\ v < 0) \/ (h = -1 /\ v > 0) \/ v % 2 = 0
    THEN [h |-> h, v |-> v]
    ELSE IF (v + 1) % 4 = 0 THEN [h |-> h, v |-> v + 1] ELSE [h |-> h, v |-> v - 1]

\* createSecretShares with the values of Math.random given: the random
\* shares, then secret - sum
createSecretShares(secret, totalShares, threshold, randoms) ==
    LET sum[i \in 0..Len(randoms)] ==
            IF i = 0 THEN Double(0, 0)
            ELSE Double(sum[i - 1].h, sum[i - 1].v + randoms[i])
        total     == sum[Len(randoms)]
        lastShare == Double(secret.h - total.h, secret.v - total.v)
    IN  [i \in 1..Len(randoms) |-> Double(0, randoms[i])] \o <<lastShare>>

\* reconstructSecret: the shares added up in order, from 0
reconstructSecret(shareList) ==
    LET sum[i \in 0..Len(shareList)] ==
            IF i = 0 THEN Double(0, 0)
            ELSE Double(sum[i - 1].h + shareList[i].h, sum[i - 1].v + shareList[i].v)
    IN  sum[Len(shareList)]

\* the nodes of the test suite
TestNodes == 3

\* the flow of the test suite: a send of 100 from 1000 at nonce 5, the old
\* balance, the amount and the old nonce each split by createSecretShares
\* among the 3 nodes (the values of Math.random given), the new shares
\* computed per node, the bundle (it has no gamma) sealed for its node; the
\* transition has no VSS fields; the first 2 nodes validate
InitTestFlow ==
    \E i \in 1..Threshold :
     \E ro \in [1..(TestNodes - 1) -> {0, 7}], ra \in [1..(TestNodes - 1) -> {0, 7}],
        rn \in [1..(TestNodes - 1) -> {0, 2}] :
        LET oldBalanceShares == createSecretShares(Double(0, 1000), TestNodes, Threshold, ro)
            amountShares     == createSecretShares(Double(0, 100), TestNodes, Threshold, ra)
            oldNonceShares   == createSecretShares(Double(0, 5), TestNodes, Threshold, rn)
            b == Bundle(Num(oldBalanceShares[i].v),
                        Num(oldBalanceShares[i].v - amountShares[i].v),
                        Num(amountShares[i].v),
                        Num(oldNonceShares[i].v),
                        Num(oldNonceShares[i].v + 1),
                        Undef)
            envelope == Envelope(JsonOf(b), NodeKey(i), UserKey)
        IN  Start(Validator("numeric", i), Transition(Absent, Absent),
                  envelope, envelope.token, UserKey)

\* generateVSSProof of the hex-encoding prover with its random draws given:
\* the computation of generateVSSProof, then the shares, the gammas and the
\* coefficients of Z each through toString(16).padStart(16, '0')
generateVSSProofHex(secret, pCoeffs, rCoeffs, gammas, numNodes) ==
    LET proof == generateVSSProof(Num(secret), pCoeffs, rCoeffs, gammas, numNodes)
    IN  [shares |-> [i \in 1..numNodes |-> toHexShare(proof.shares[i].v)],
         gammas |-> [i \in 1..numNodes |-> toHexShare(gammas[i])],
         commitments |-> proof.commitments,
         proofPolynomial |-> [k \in 1..Len(proof.proofPolynomial) |->
                                toHexShare(proof.proofPolynomial[k].v)],
         challenge |-> proof.challenge]

\* the first deposit of the frontend, made with the hex-encoding prover:
\* old balance and nonce shares '0', the share of the amount as new balance
\* share and as amount share, the bundle sealed for node i, the hex proof
\* polynomial in the transition
InitHexDeposit ==
    \E i \in 1..NumNodes, depositAmount \in {0, 5, 1000} :
     \E p \in [1..(Threshold - 1) -> {0, 1, 7}], r \in [1..(Threshold - 1) -> {0, 1, 999999}],
        g \in [1..NumNodes -> {3, 12}] :
        LET vssProof == generateVSSProofHex(depositAmount, p, r, g, NumNodes)
            shareData == Bundle(Str(<<"0">>), vssProof.shares[i], vssProof.shares[i],
                                Str(<<"0">>), Str(<<"0">>), vssProof.gammas[i])
            envelope == Envelope(JsonOf(shareData), NodeKey(i), UserKey)
        IN  Start(Validator("hex", i),
                  Transition(List(vssProof.commitments), List(vssProof.proofPolynomial)),
                  envelope, envelope.token, UserKey)

\* honest envelope, honest VSS fields, any bundle
InitBundles ==
    \E variant \in Variants, i \in 1..NumNodes :
     \E proof \in ProofsFor(variant) :
      \E b \in BundlesFor(variant, proof, i) :
        LET envelope == Envelope(JsonOf(b), NodeKey(i), UserKey)
        IN  Start(Validator(variant, i), HonestTransition(proof),
                  envelope, envelope.token, UserKey)

\* what can be done to a token: nothing, other unused bits in its last
\* character, a bit of the nonce, a bit of the ciphertext, a nonce cut short
Alterations == {"none", "slack", "nonce", "cipher", "truncated"}

Alter(token, how) ==
    CASE how = "slack"     -> IF HasSlack(token) THEN [token EXCEPT !.slack = 1] ELSE token
      [] how = "nonce"     -> [token EXCEPT !.nonce = "n1"]
      [] how = "cipher"    -> [token EXCEPT !.encrypted.damaged = TRUE]
      [] how = "truncated" -> [token EXCEPT !.nonce = "short"]
      [] OTHER             -> token

\* the (recipient public key, sender private key) pairs an envelope that
\* reaches node i can have been made with
Encryptors(i) ==
    {<<NodeKey(i), UserKey>>, <<NodeKey(i), MalloryKey>>, <<UserKey, NodeKey(i)>>}
    \cup {<<NodeKey(j), UserKey>> : j \in (1..NumNodes) \ {i}}

Plaintexts(b) == {JsonOf(b), JsonNull, NotJson}

\* any envelope, honest VSS fields
InitEnvelopes ==
    \E variant \in Variants, i \in 1..NumNodes :
     \E proof \in SmallProofs :
      \E b \in SampleBundles(variant, proof, i), e \in Encryptors(i),
         how \in Alterations, claimed \in {UserKey, MalloryKey, ShortKey} :
       \E message \in Plaintexts(b) :
        LET envelope == Envelope(message, e[1], e[2])
        IN  Start(Validator(variant, i), HonestTransition(proof),
                  envelope, Alter(envelope.token, how), claimed)

\* the values the vss_commitments field can have
CommitmentFields(proof, i) ==
    LET c == proof.commitments
    IN  { List(c), WrongType, Absent, List(SubSeq(c, 1, i - 1)) }
        \cup { List([c EXCEPT ![j] = Append(c[j], "#")]) : j \in 1..NumNodes }

\* the values the vss_proof_polynomial field can have
PolynomialFields(proof) ==
    LET Z == proof.proofPolynomial
    IN  { List(Z), WrongType, Absent }
        \cup { List([Z EXCEPT ![k] = NumAdd(Z[k], Num(1))]) : k \in 1..Len(Z) }

\* honest envelope, any VSS fields
InitVSSFields ==
    \E variant \in Variants, i \in 1..NumNodes :
     \E proof \in SmallProofs :
      \E b \in SampleBundles(variant, proof, i),
         c \in CommitmentFields(proof, i), z \in PolynomialFields(proof) :
        LET envelope == Envelope(JsonOf(b), NodeKey(i), UserKey)
        IN  Start(Validator(variant, i), Transition(c, z),
                  envelope, envelope.token, UserKey)

Init ==
    InitBundles \/ InitEnvelopes \/ InitVSSFields \/ InitTestFlow \/ InitHexDeposit

Spec == Init /\ [][Next]_vars

(***************************************************************************)
(* What the claims speak of, read off the inputs of the run.               *)
(***************************************************************************)
\* the run has ended
Done == state \in Terminal

\* the envelope decrypted to a bundle
Decrypted ==
    LET d == decryptFromSender(call.encryptedShares, call.senderPublicKey,
                               validator.privateKey)
    IN  ~d.thrown /\ d.val.kind = "object"

\* the VSS verifier accepted new_balance_share for this node's id
VSSAccepted ==
    /\ Decrypted
    /\ state \notin {"RECEIVED", "DECRYPTED"}
    /\ verifyTransitionVSS(validator.nodeId, nums, call.transition).valid

\* a + b = c as integers: the three are numbers, and hi * 2^63 + v adds up
IntegerSum(a, b, c) ==
    /\ a.k = "num" /\ b.k = "num" /\ c.k = "num"
    /\ a.hi + b.hi = c.hi
    /\ a.v + b.v = c.v

BalanceHolds == IntegerSum(nums.old_balance_share, nums.amount_share, nums.new_balance_share)
NonceIncremented == IntegerSum(nums.old_nonce_share, Num(1), nums.new_nonce_share)
InitExemption ==
    /\ nums.old_balance_share = Num(0)
    /\ nums.old_nonce_share = Num(0)
    /\ nums.new_nonce_share = Num(0)

\* C1 (as stated; violated): a result with valid = true is returned only if
\* decryption succeeded, the VSS verifier accepted the new balance share,
\* old + amount = new as integers, and the nonce share went up by one or the
\* initialization exemption applies; a bundle with new # old + amount is
\* never accepted.
C1_ValidOnlyIfAllChecksHeld ==
    result.valid =>
        /\ Decrypted
        /\ VSSAccepted
        /\ BalanceHolds
        /\ (NonceIncremented \/ InitExemption)

\* C2 (as stated; violated): every run returns a result, and whenever an
\* exception was thrown at any step the result is valid = false, reason
\* "Error: <message>", partialSignature = null.
C2_AnyExceptionYieldsErrorReason ==
    Done =>
        /\ result.returned
        /\ caught.msg # "" =>
             result = [returned |-> TRUE, valid |-> FALSE,
                       reason |-> ErrorReason(caught.msg), partialSignature |-> NullSig]

\* C2 (amended): every run returns a result; an exception thrown outside
\* verifyVSSShare yields valid = false, reason "Error: <message>", null
\* signature; an exception thrown inside verifyVSSShare is swallowed there
\* and yields valid = false, reason "VSS verification failed for balance
\* share", null signature.
C2_NeverRaises ==
    Done =>
        /\ result.returned
        /\ (caught.msg # "" /\ ~caught.inVss) =>
             result = [returned |-> TRUE, valid |-> FALSE,
                       reason |-> ErrorReason(caught.msg), partialSignature |-> NullSig]
        /\ caught.inVss =>
             result = [returned |-> TRUE, valid |-> FALSE,
                       reason |-> Reason("VSS verification failed for balance share"),
                       partialSignature |-> NullSig]

\* a run in which JSON.parse threw and the catch block answered
C2_Witness ==
    /\ state = "REJECTED"
    /\ caught = [msg |-> "Unexpected token in JSON at position 0", inVss |-> FALSE]
    /\ result.reason = ErrorReason("Unexpected token in JSON at position 0")

StateOrder ==
    {<<"RECEIVED", "DECRYPTED">>, <<"DECRYPTED", "VSS_VERIFIED">>,
     <<"VSS_VERIFIED", "ARITHMETIC_VERIFIED">>, <<"ARITHMETIC_VERIFIED", "SIGNED">>}
    \cup {<<s, "REJECTED">> : s \in {"RECEIVED", "DECRYPTED", "VSS_VERIFIED",
                                     "ARITHMETIC_VERIFIED"}}

StepInOrder == <<state, state'>> \in StateOrder

C4_SignatureIffValid ==
    result.returned =>
        /\ (result.partialSignature # NullSig) <=> result.valid
        /\ result.valid => (~result.partialSignature.null
                            /\ result.reason = Reason("All checks passed"))
        /\ ~result.valid => result.partialSignature.null

\* an acceptance with its signature
C4_Witness ==
    /\ state = "SIGNED"
    /\ result.valid
    /\ result.partialSignature =
         generatePartialSignature(<<call.transition, shares>>,
                                  validator.privateKey, validator.nodeId)

\* C5 (as stated; violated): whenever the envelope decrypts, the VSS proof
\* verifies, old + amount = new and new nonce = old nonce + 1, the run
\* returns valid = true with a non-null signature.
C5_AllChecksPassAccepted ==
    (Done /\ Decrypted /\ VSSAccepted /\ BalanceHolds /\ NonceIncremented) =>
        (result.valid /\ ~result.partialSignature.null)

\* C6 (as stated; violated): when decryption and the VSS check pass and
\* old + amount differs from new, the result is valid = false with reason
\* "Balance equation failed on share", whatever the nonce shares.
C6_BalanceMismatchReason ==
    (Done /\ Decrypted /\ VSSAccepted /\ ~BalanceHolds) =>
        (~result.valid /\ result.reason = Reason("Balance equation failed on share"))

\* C7 (as stated; violated): when decryption, the VSS check and the balance
\* equation pass, the exemption does not apply and new nonce differs from
\* old nonce + 1, the result is valid = false with reason "Nonce not
\* incremented correctly on share".
C7_NonceMismatchReason ==
    (Done /\ Decrypted /\ VSSAccepted /\ BalanceHolds
          /\ ~InitExemption /\ ~NonceIncremented) =>
        (~result.valid
         /\ result.reason = Reason("Nonce not incremented correctly on share"))

\* C8 (as stated; violated): the nonce check is skipped exactly when old
\* balance, old nonce and new nonce are all 0, and then the result depends
\* on the decryption, VSS and balance checks alone (they pass: accepted);
\* in every other case an acceptance requires new nonce = old nonce + 1.
C8_InitializationExemption ==
    (Done /\ Decrypted /\ VSSAccepted /\ BalanceHolds) =>
        IF InitExemption
        THEN result.valid
        ELSE /\ result.valid => NonceIncremented
             /\ ~NonceIncremented =>
                  result.reason = Reason("Nonce not incremented correctly on share")

\* a VSS field is absent from the transition
VSSFieldAbsent ==
    \/ call.transition.vss_commitments = Absent
    \/ call.transition.vss_proof_polynomial = Absent

\* C9 (as stated; violated): when the envelope decrypts but a VSS field is
\* absent from the transition, or gamma from the bundle, both validators
\* reject with the reason of the missing field, never with "Error: ..." and
\* never with an acceptance.
C9_MissingFieldReason ==
    (Done /\ Decrypted) =>
        /\ VSSFieldAbsent =>
             (~result.valid /\ result.reason = Reason("VSS proof missing from transition"))
        /\ (~VSSFieldAbsent /\ shares.gamma = Undef) =>
             (~result.valid /\ result.reason = Reason("Gamma missing from encrypted shares"))

\* the token differs, in any bit, from the one that was made
TokenAltered == call.encryptedShares # sent.token

\* the keys of the call are not the counterparts of the keys of encryption
KeysMismatch ==
    \/ call.senderPublicKey # sent.senderPrivateKey
    \/ validator.privateKey # sent.recipientPublicKey

DecryptionFailed ==
    /\ ~Decrypted
    /\ result = [returned |-> TRUE, valid |-> FALSE,
                 reason |-> ErrorReason("Decryption failed"),
                 partialSignature |-> NullSig]

\* C10 (as stated; violated): an envelope altered in any bit, or opened
\* with keys that do not match the keys it was encrypted with, does not
\* decrypt, and the result is valid = false, reason "Error: Decryption
\* failed".
C10_AlteredOrMismatchedNeverDecrypts ==
    (Done /\ (TokenAltered \/ KeysMismatch)) => DecryptionFailed

\* the bytes the token decodes to differ from the bytes that were encoded
BytesAltered ==
    \/ call.encryptedShares.nonce # sent.token.nonce
    \/ call.encryptedShares.encrypted # sent.token.encrypted

\* the two keys of the call and the two keys of encryption are different
\* Diffie-Hellman pairs
PairMismatch ==
    sharedKey(call.senderPublicKey, validator.privateKey)
        # sharedKey(sent.recipientPublicKey, sent.senderPrivateKey)

\* the keys and the nonce of the call have the sizes nacl.box.open takes
WellSized ==
    /\ call.senderPublicKey # ShortKey
    /\ validator.privateKey # ShortKey
    /\ call.encryptedShares.nonce # "short"

\* C10 (amended): with keys and nonce of the right size, an envelope whose
\* decoded nonce or ciphertext differs in any bit, or that is opened with a
\* key pair other than the pair it was encrypted for, does not decrypt, and
\* the result is valid = false, reason "Error: Decryption failed"; with a
\* key or nonce of the wrong size the result is still a rejection.
C10_AuthenticatedEnvelope ==
    Done =>
        /\ (WellSized /\ (BytesAltered \/ PairMismatch)) => DecryptionFailed
        /\ (BytesAltered \/ PairMismatch \/ ~WellSized) => (~Decrypted /\ ~result.valid)

\* a run on an envelope with a flipped ciphertext bit, opened with the
\* right keys
C10_Witness ==
    /\ state = "REJECTED"
    /\ call.encryptedShares.encrypted.damaged
    /\ ~KeysMismatch
    /\ result.reason = ErrorReason("Decryption failed")

\* the bundle the envelope of the call decrypts to
SentBundle ==
    decryptFromSender(call.encryptedShares, call.senderPublicKey,
                      validator.privateKey).val.obj

\* the reason of the first check that fails, for a bundle of numbers or
\* strings that fails one: presence of the VSS fields, presence of gamma,
\* VSS verification, the balance equation, the nonce check
FirstFailure(b) ==
    IF call.transition.vss_commitments = Absent
       \/ call.transition.vss_proof_polynomial = Absent
    THEN "VSS proof missing from transition"
    ELSE IF b.gamma \in {Undef, Null}
    THEN "Gamma missing from encrypted shares"
    ELSE IF ~verifyVSSShare(validator.nodeId, b.new_balance_share, b.gamma,
                            call.transition.vss_commitments,
                            call.transition.vss_proof_polynomial).valid
    THEN "VSS verification failed for balance share"
    ELSE IF balanceEquationFails(b)
    THEN "Balance equation failed on share"
    ELSE IF nonceCheckFails(b)
    THEN "Nonce not incremented correctly on share"
    ELSE "none"

\* C26: the checks run in a fixed order (decryption, presence of the VSS
\* fields, presence of gamma, VSS verification, the balance equation, the
\* nonce check); a run is rejected with the reason of the earliest check
\* that fails, whatever later checks would fail too, and no step follows a
\* rejection.
C26_FirstFailureDecides ==
    /\ []((Done /\ validator.variant = "numeric") =>
            IF ~Decrypted
            THEN ~result.valid /\ result.reason.err /\ caught.msg # ""
                 /\ shares = NoBundle /\ nums = NoBundle
            ELSE FirstFailure(SentBundle) # "none" =>
                    result = Rejection(Reason(FirstFailure(SentBundle))))
    /\ [][state \notin Terminal]_vars

\* a bundle without gamma that fails the balance equation and the nonce
\* check too, rejected for the missing gamma
C26_Witness ==
    /\ Done /\ validator.variant = "numeric" /\ Decrypted
    /\ SentBundle.gamma = Undef
    /\ balanceEquationFails(SentBundle)
    /\ nonceCheckFails(SentBundle)
    /\ result = Rejection(Reason("Gamma missing from encrypted shares"))

(***************************************************************************)
(* A second call of validateTransition on the same validator, after the    *)
(* first has returned (the method is synchronous: two calls of it cannot   *)
(* interleave).  lib.first keeps what the first call returned.             *)
(***************************************************************************)
\* a second call in which the envelope of the node itself is another one too
CallAgainOwnEnvelope ==
    /\ state \in Terminal
    /\ lib = NoCall
    /\ \E how \in {"same", "others"} :
         /\ lib' = [fn |-> "validateTransition", done |-> FALSE, how |-> how,
                    first |-> result]
         /\ call' = IF how = "same" THEN call
                    ELSE [call EXCEPT !.transition.encrypted_shares =
                                         [j \in DOMAIN @ |-> <<"envelope", j, 1>>],
                                      !.encryptedShares = Alter(@, "cipher")]
    /\ state' = "RECEIVED"
    /\ shares' = NoBundle
    /\ nums' = NoBundle
    /\ result' = NoResult
    /\ caught' = NoCatch
    /\ UNCHANGED <<validator, sent, node>>

\* the second call: with the arguments of the first, or with a transition
\* in which the envelopes of the other nodes are different ones
CallAgain ==
    /\ state \in Terminal
    /\ lib = NoCall
    /\ \E how \in {"same", "others"} :
         /\ lib' = [fn |-> "validateTransition", done |-> FALSE, how |-> how,
                    first |-> result]
         /\ call' = IF how = "same" THEN call
                    ELSE [call EXCEPT !.transition.encrypted_shares =
                            [j \in DOMAIN @ |->
                               IF j = validator.nodeId THEN @[j]
                               ELSE <<"envelope", j, 1>>]]
    /\ state' = "RECEIVED"
    /\ shares' = NoBundle
    /\ nums' = NoBundle
    /\ result' = NoResult
    /\ caught' = NoCatch
    /\ UNCHANGED <<validator, sent, node>>

TwoCallsSpec == Init /\ [][Next \/ CallAgain]_vars

SecondReturned == lib.fn = "validateTransition" /\ state \in Terminal

NoRun ==
    /\ validator = NoCall
    /\ call = NoCall
    /\ sent = NoCall
    /\ state = "IDLE"
    /\ shares = NoBundle
    /\ nums = NoBundle
    /\ result = NoResult
    /\ caught = NoCatch

\* the call ends with the given value
Return(out) ==
    /\ ~lib.done
    /\ lib' = [lib EXCEPT !.done = TRUE, !.out = out]
    /\ UNCHANGED <<validator, call, sent, state, shares, nums, result, caught, node>>

\* nacl.box.keyPair(): the public key and the secret key of one owner
generateKeyPair(owner) == [publicKey |-> owner, secretKey |-> owner]

\* JSON.stringify(data) for an object of share fields or for null
jsonStringify(data) == IF data = Null THEN JsonNull ELSE JsonOf(data)

\* JSON.parse of a plaintext that is a JSON text
jsonParse(text) == IF text.kind = "null" THEN Null ELSE text.obj

\* decryptFromSender(encryptForRecipient(m, pkB, skA), pkA, skB)
roundTrip(m, nonce, A, B) ==
    LET token == encryptForRecipient(jsonStringify(m), nonce, B.publicKey, A.secretKey)
        d     == decryptFromSender(token, A.publicKey, B.secretKey)
    IN  IF d.thrown THEN d ELSE Ok(jsonParse(d.val))

\* the arguments: objects of share fields (some with a NaN in them) and
\* null as messages, the key pairs of the user, of a stranger and of the nodes
InitRoundTrip ==
    LET owners   == {UserKey, MalloryKey} \cup {NodeKey(i) : i \in 1..NumNodes}
        messages == { Bundle(ob, nb, Num(1), Num(0), Num(1), g) :
                        ob \in {Num(0), Num(0 - 7), Str(<<"1">>), BIG, Null, NaN},
                        nb \in {Num(10), Str(<<>>), NEGBIG, NaN},
                        g  \in {Num(3), Undef} }
                    \cup {Null}
    IN  /\ NoRun
        /\ node = NoNode
        /\ \E m \in messages, a \in owners, b \in owners, nonce \in {"n0", "n1"} :
             lib = [fn |-> "roundTrip", done |-> FALSE, m |-> m, nonce |-> nonce,
                    A |-> generateKeyPair(a), B |-> generateKeyPair(b), out |-> Undef]

RoundTrip ==
    /\ lib.fn = "roundTrip"
    /\ Return(roundTrip(lib.m, lib.nonce, lib.A, lib.B))

\* every value in the message is one JSON has: a finite number, a string, null
JsonSerializable(m) ==
    m = Null \/ \A f \in DOMAIN m : m[f].k \in {"num", "str", "null", "undef"}

\* C11: for every JSON-serializable message m and key pairs A (sender) and
\* B (recipient), decryptFromSender(encryptForRecipient(m, pkB, skA), pkA,
\* skB) returns m; it does not throw.
C11_RoundTrip ==
    (lib.fn = "roundTrip" /\ lib.done /\ JsonSerializable(lib.m))
        => lib.out = Ok(lib.m)

\* a round trip between two different owners, of an object with a string,
\* a number beyond 2^63 and an absent field
C11_Witness ==
    /\ lib.fn = "roundTrip" /\ lib.done
    /\ lib.A # lib.B
    /\ lib.m # Null /\ lib.m.old_balance_share.k = "str"
    /\ lib.m.new_balance_share = NEGBIG /\ lib.m.gamma = Undef
    /\ lib.out = Ok(lib.m)

(***************************************************************************)
(* verifyVSSShare called on a proof of generateVSSProof, as published or   *)
(* with one thing changed.                                                 *)
(***************************************************************************)
\* what is handed to verifyVSSShare of node i: the share, the gamma, the
\* commitments and the proof polynomial of the proof, one of them changed
\* (a commitment replaced by another digest, a coefficient or the share by
\* the next number)
Changed(proof, i, change) ==
    LET c == proof.commitments
        Z == proof.proofPolynomial
        v == proof.shares[i]
    IN  [share |-> IF change[1] = "share" THEN NumAdd(v, Num(1)) ELSE v,
         gamma |-> proof.gammas[i],
         commitments |->
            List(IF change[1] = "commitment"
                 THEN [c EXCEPT ![change[2]] = hashCommitment(Num(1), Num(1), Num(1))]
                 ELSE c),
         proofPolynomial |->
            List(IF change[1] = "coefficient"
                 THEN [Z EXCEPT ![change[2]] = NumAdd(Z[change[2]], Num(1))]
                 ELSE Z)]

\* the proofs of the secrets 0, 10 and 2^63 for every threshold up to the
\* number of nodes (the coefficients of P drawn 0 for 2^63), every node,
\* every change that leaves a different value
InitVerifyShare ==
    /\ NoRun
    /\ node = NoNode
    /\ \E secret \in {Num(0), Num(10), BIG}, t \in 1..NumNodes, i \in 1..NumNodes :
        \E p \in [1..(t - 1) -> IF secret = BIG THEN {0} ELSE Coefficients],
           r \in [1..(t - 1) -> Coefficients],
           g \in [1..NumNodes -> Gammas] :
         LET proof == generateVSSProof(secret, p, r, g, NumNodes)
         IN  \E change \in {<<"none", 0>>, <<"share", 0>>}
                           \cup {<<"commitment", j>> : j \in 1..NumNodes}
                           \cup {<<"coefficient", k>> : k \in 1..t} :
               LET args == Changed(proof, i, change)
               IN  /\ change[1] # "none"
                        => args # Changed(proof, i, <<"none", 0>>)
                   /\ lib = [fn |-> "verifyVSSShare", done |-> FALSE,
                             secret |-> secret, threshold |-> t, proof |-> proof,
                             nodeId |-> i, change |-> change, args |-> args,
                             d |-> 0, out |-> Undef]

\* the call of verifyVSSShare; d is the challenge it recomputed
VerifyShare ==
    /\ lib.fn = "verifyVSSShare"
    /\ ~lib.done
    /\ lib' = [lib EXCEPT !.done = TRUE,
                          !.d = challengeOf(lib.args.commitments.items),
                          !.out = verifyVSSShare(lib.nodeId, lib.args.share,
                                                 lib.args.gamma, lib.args.commitments,
                                                 lib.args.proofPolynomial)]
    /\ UNCHANGED <<validator, call, sent, state, shares, nums, result, caught, node>>

Verified == lib.fn = "verifyVSSShare" /\ lib.done

\* C12: for every secret, every threshold t <= n and every node i,
\* verifyVSSShare(i, P(i), gamma_i, commitments, Z) is true on the output
\* of one honest run of generateVSSProof.
C12_HonestShareVerifies ==
    (Verified /\ lib.change[1] = "none") => lib.out.valid

\* C13: starting from an honest proof, changing any single commitment (of
\* node i or of another node), any single coefficient of the proof
\* polynomial, or the share of node i makes verifyVSSShare return false
\* for node i, whatever the share, 0 included.
C13_AnyChangeRejected ==
    (Verified /\ lib.change[1] # "none") => ~lib.out.valid

\* C14: the verifier takes no challenge; the d it recomputes depends on
\* the commitment list alone: whatever the node, and whether or not the
\* share or the proof polynomial is the published one, on the list the
\* prover published it is the challenge the prover computed.
C14_ChallengeFromCommitments ==
    (Verified /\ lib.change[1] # "commitment") => lib.d = lib.proof.challenge

\* a verification of published commitments with a challenge that is not 0
C14_Witness ==
    /\ Verified
    /\ lib.change[1] = "coefficient"
    /\ lib.nodeId = NumNodes
    /\ lib.d = lib.proof.challenge
    /\ lib.d # 0

\* the secrets 0, 1000, -3 and the doubles at 2^53 - 1, 2^53, 2^53 + 2
\* and -(2^53 + 2); 2 or more shares; the loop draws totalShares - 1 values
InitAdditive ==
    /\ NoRun
    /\ node = NoNode
    /\ \E secret \in {Double(0, 0), Double(0, 1000), Double(0, 0 - 3), Double(1, 0 - 1),
                      Double(1, 0), Double(1, 2), Double(0 - 1, 0 - 2)},
          n \in 2..(NumNodes + 1), t \in 1..2 :
        \E randoms \in [1..(n - 1) -> {0 - 500000, 0 - 1, 0, 1, 499999}] :
          lib = [fn |-> "additive", done |-> FALSE, secret |-> secret,
                 totalShares |-> n, threshold |-> t, randoms |-> randoms,
                 made |-> FALSE, shares |-> <<>>, out |-> Undef]

CreateSecretShares ==
    /\ lib.fn = "additive"
    /\ ~lib.made
    /\ lib' = [lib EXCEPT !.made = TRUE,
                          !.shares = createSecretShares(lib.secret, lib.totalShares,
                                                        lib.threshold, lib.randoms)]
    /\ UNCHANGED <<validator, call, sent, state, shares, nums, result, caught, node>>

ReconstructSecret ==
    /\ lib.fn = "additive"
    /\ lib.made
    /\ Return(reconstructSecret(lib.shares))

\* C15: for every secret s and every share count n >= 2,
\* createSecretShares(s, n, t) returns exactly n shares and
\* reconstructSecret of them equals s.
C15_AdditiveRoundTrip ==
    /\ (lib.fn = "additive" /\ lib.made) => Len(lib.shares) = lib.totalShares
    /\ (lib.fn = "additive" /\ lib.done) => lib.out = lib.secret

\* Number.prototype.toString(16) of a double h * 2^53 + v
doubleToString16(x) ==
    LET magnitude == IF x.h < 0 THEN [h |-> 0 - x.h, v |-> 0 - x.v]
                     ELSE IF x.h = 0 /\ x.v < 0 THEN [h |-> 0, v |-> 0 - x.v] ELSE x
        sign      == IF x.h < 0 \/ (x.h = 0 /\ x.v < 0) THEN <<"-">> ELSE <<>>
        digits    == IF magnitude.h = 0 THEN IntToString(magnitude.v, 16)
                     ELSE IF magnitude.v >= 0
                     THEN <<"2">> \o padStart(IntToString(magnitude.v, 16), 13, "0")
                     ELSE <<"1", "f", "f", "f", "f", "f", "f", "f">>
                          \o padStart(IntToString(16777216 + magnitude.v, 16), 6, "0")
    IN  sign \o digits

\* evaluatePolynomial of the prover on doubles: result += coefficients[i] *
\* xPower, each sum rounded; Math.floor leaves an integer as it is
evaluatePolynomialDouble(coefficients, x) ==
    LET xPower[i \in 1..Len(coefficients)] == IF i = 1 THEN 1 ELSE xPower[i - 1] * x
        acc[i \in 0..Len(coefficients)] ==
            IF i = 0 THEN Double(0, 0)
            ELSE Double(acc[i - 1].h + coefficients[i].h * xPower[i],
                        acc[i - 1].v + coefficients[i].v * xPower[i])
    IN  acc[Len(coefficients)]

\* generateShamirShares of the hex-encoding prover with the values of
\* secureRandomInt given: {shares, hexShares, polynomial}
generateShamirSharesHex(secret, threshold, numShares, draws) ==
    LET polynomial    == <<secret>> \o [i \in 1..Len(draws) |-> Double(0, draws[i])]
        numericShares == [x \in 1..numShares |-> evaluatePolynomialDouble(polynomial, x)]
    IN  [shares |-> numericShares,
         hexShares |-> [x \in 1..numShares |->
                          padStart(doubleToString16(numericShares[x]), HexWidth, "0")],
         polynomial |-> polynomial]

\* the secrets 0, 1000 and the doubles at 2^53 - 1, 2^53 and 2^53 + 2;
\* every threshold up to the number of shares; threshold - 1 draws
InitShamir ==
    /\ NoRun
    /\ node = NoNode
    /\ \E secret \in {Double(0, 0), Double(0, 1000), Double(1, 0 - 1), Double(1, 0),
                      Double(1, 2)},
          n \in NumNodes..(NumNodes + 1) :
        \E t \in 1..n :
         \E draws \in [1..(t - 1) -> {0, 1, 999999}] :
           lib = [fn |-> "generateShamirShares", done |-> FALSE, secret |-> secret,
                  threshold |-> t, numShares |-> n, draws |-> draws, out |-> Undef]

GenerateShamirShares ==
    /\ lib.fn = "generateShamirShares"
    /\ Return(generateShamirSharesHex(lib.secret, lib.threshold, lib.numShares, lib.draws))

\* P(x) for the polynomial with constant term secret and the drawn
\* coefficients, in exact integer arithmetic
ExactValue(secret, draws, x) ==
    LET term[j \in 0..Len(draws)] ==
            IF j = 0 THEN [pow |-> 1, sum |-> 0]
            ELSE [pow |-> term[j - 1].pow * x,
                  sum |-> term[j - 1].sum + draws[j] * term[j - 1].pow * x]
    IN  [h |-> secret.h, v |-> secret.v + term[Len(draws)].sum]

\* Lagrange interpolation at 0 through the points (k, shareList[k]), k in S,
\* gives secret: with L the product of all differences m - k, the sum of
\* shareList[k] * prod(m) * L / prod(m - k) over k is L * secret
InterpolatesTo(shareList, S, secret) ==
    LET RECURSIVE prod(_, _)
        prod(T, k) == IF T = {} THEN 1
                      ELSE LET m == CHOOSE m \in T : TRUE
                           IN  (IF k = 0 THEN m ELSE m - k) * prod(T \ {m}, k)
        RECURSIVE all(_)
        all(T) == IF T = {} THEN 1
                  ELSE LET k == CHOOSE k \in T : TRUE
                       IN  prod(S \ {k}, k) * all(T \ {k})
        L    == all(S)
        a(k) == prod(S \ {k}, 0) * (L \div prod(S \ {k}, k))
        RECURSIVE sumH(_)
        sumH(T) == IF T = {} THEN 0
                   ELSE LET k == CHOOSE k \in T : TRUE
                        IN  a(k) * shareList[k].h + sumH(T \ {k})
        RECURSIVE sumV(_)
        sumV(T) == IF T = {} THEN 0
                   ELSE LET k == CHOOSE k \in T : TRUE
                        IN  a(k) * shareList[k].v + sumV(T \ {k})
    IN  sumH(S) = L * secret.h /\ sumV(S) = L * secret.v

\* C16: generateShamirShares(secret, t, n) returns n shares that are
\* exactly P(1)..P(n) for one polynomial P with t coefficients and constant
\* term secret, so that Lagrange interpolation at 0 over any t of the n
\* shares recovers secret exactly.
C16_ShamirShares ==
    (lib.fn = "generateShamirShares" /\ lib.done) =>
        /\ Len(lib.out.shares) = lib.numShares
        /\ Len(lib.out.polynomial) = lib.threshold
        /\ lib.out.polynomial[1] = lib.secret
        /\ \A x \in 1..lib.numShares :
             lib.out.shares[x] = ExactValue(lib.secret, lib.draws, x)
        /\ \A S \in SUBSET (1..lib.numShares) :
             Cardinality(S) = lib.threshold
                => InterpolatesTo(lib.out.shares, S, lib.secret)

(***************************************************************************)
(* The signature aggregator.  A signature is its sequence of bytes.        *)
(***************************************************************************)
\* a ^ b on two bytes
bitXor(a, b) ==
    LET x[i \in 0..8] ==
            IF i = 0 THEN 0
            ELSE x[i - 1] + (2 ^ (i - 1))
                            * (((a \div (2 ^ (i - 1))) + (b \div (2 ^ (i - 1)))) % 2)
    IN  x[8]

\* loops that assign (result[i] = sig[i]) where aggregateSignatures XORs
xorFoldAssigning(partialSignatures) ==
    LET fold[n \in 0..Len(partialSignatures)] ==
            IF n = 0 THEN [i \in 1..DigestLength |-> 0]
            ELSE [i \in 1..DigestLength |->
                    IF i <= Len(partialSignatures[n])
                    THEN partialSignatures[n][i]
                    ELSE fold[n - 1][i]]
    IN  fold[Len(partialSignatures)]

\* the loops of aggregateSignatures: the first 32 bytes of every signature
\* XORed into Buffer.alloc(32)
xorFold(partialSignatures) ==
    LET fold[n \in 0..Len(partialSignatures)] ==
            IF n = 0 THEN [i \in 1..DigestLength |-> 0]
            ELSE [i \in 1..DigestLength |->
                    IF i <= Len(partialSignatures[n])
                    THEN bitXor(fold[n - 1][i], partialSignatures[n][i])
                    ELSE fold[n - 1][i]]
    IN  fold[Len(partialSignatures)]

\* an aggregator that folds an empty list into the digest of zeros
aggregateSignaturesUnguarded(partialSignatures) == Ok(xorFold(partialSignatures))

\* aggregateSignatures: the error for an empty list, else the fold
aggregateSignatures(partialSignatures) ==
    IF Len(partialSignatures) = 0 THEN Throw("No signatures to aggregate")
    ELSE Ok(xorFold(partialSignatures))

\* a verification that wants a signer
verifyThresholdSignatureOfSigners(signature, data, publicKeys) ==
    Len(signature) = DigestLength /\ publicKeys # {}

\* verifyThresholdSignature: signature.length === 32
verifyThresholdSignature(signature, data, publicKeys) ==
    Len(signature) = DigestLength

\* lists of up to NumNodes signatures, each a digest of 32 bytes or a byte
\* string of another length; or an aggregate of any length handed to the
\* verifier as it is; any data and any set of signer keys
InitThreshold ==
    LET digests  == {[i \in 1..DigestLength |-> (a * i + b) % 256] :
                        a \in {0, 1, 7}, b \in {0, 255}}
        strings  == digests \cup {[i \in 1..n |-> 255 - i] : n \in {0, 16, 33}}
        lists    == UNION {[1..n -> strings] : n \in 0..NumNodes}
        keySets  == {{}, {NodeKey(1)}, {NodeKey(i) : i \in 1..NumNodes}, {MalloryKey}}
    IN  /\ NoRun
        /\ node = NoNode
        /\ \E data \in {Num(0), Str(<<"1">>)}, publicKeys \in keySets :
             \/ \E list \in lists :
                  lib = [fn |-> "aggregateSignatures", done |-> FALSE,
                         partialSignatures |-> list, aggregate |-> Undef,
                         data |-> data, publicKeys |-> publicKeys, out |-> Undef]
             \/ \E signature \in strings :
                  lib = [fn |-> "verifyThresholdSignature", done |-> FALSE,
                         partialSignatures |-> <<>>, aggregate |-> Ok(signature),
                         data |-> data, publicKeys |-> publicKeys, out |-> Undef]

AggregateSignatures ==
    /\ lib.fn = "aggregateSignatures"
    /\ lib.aggregate = Undef
    /\ lib' = [lib EXCEPT !.aggregate = aggregateSignatures(lib.partialSignatures)]
    /\ UNCHANGED <<validator, call, sent, state, shares, nums, result, caught, node>>

\* the verification of an aggregate (there is none after the error)
VerifyThresholdSignature ==
    /\ lib.fn \in {"aggregateSignatures", "verifyThresholdSignature"}
    /\ lib.aggregate # Undef
    /\ ~lib.aggregate.thrown
    /\ Return(verifyThresholdSignature(lib.aggregate.val, lib.data, lib.publicKeys))

Aggregated == lib.fn = "aggregateSignatures" /\ lib.aggregate # Undef

\* C17: aggregateSignatures of a list of one partial signature (a digest
\* of 32 bytes) returns that signature, and of an empty list it raises an
\* error and returns no digest.
C17_AggregateOneOrNone ==
    /\ (Aggregated /\ Len(lib.partialSignatures) = 0)
          => lib.aggregate = Throw("No signatures to aggregate")
    /\ (Aggregated /\ Len(lib.partialSignatures) = 1
          /\ Len(lib.partialSignatures[1]) = DigestLength)
          => lib.aggregate = Ok(lib.partialSignatures[1])

\* the aggregate of one digest whose bytes are not all 0
C17_Witness ==
    /\ Aggregated
    /\ Len(lib.partialSignatures) = 1
    /\ Len(lib.partialSignatures[1]) = DigestLength
    /\ lib.partialSignatures[1][2] = 14
    /\ lib.aggregate = Ok(lib.partialSignatures[1])

\* C36: for every list of 32-byte partial signatures that is not empty and
\* every permutation of it, aggregateSignatures gives the same 32-byte
\* digest.
C36_AggregateOrderIndependent ==
    (Aggregated /\ Len(lib.partialSignatures) > 0
       /\ \A n \in DOMAIN lib.partialSignatures :
             Len(lib.partialSignatures[n]) = DigestLength) =>
        /\ ~lib.aggregate.thrown
        /\ Len(lib.aggregate.val) = DigestLength
        /\ \A p \in Permutations(DOMAIN lib.partialSignatures) :
              aggregateSignatures([n \in DOMAIN lib.partialSignatures |->
                                     lib.partialSignatures[p[n]]]) = lib.aggregate

\* the aggregate of two different digests, which is neither of them
C36_Witness ==
    /\ Aggregated
    /\ Len(lib.partialSignatures) = NumNodes
    /\ \A n \in DOMAIN lib.partialSignatures : Len(lib.partialSignatures[n]) = DigestLength
    /\ lib.partialSignatures[1] # lib.partialSignatures[2]
    /\ ~lib.aggregate.thrown
    /\ \A n \in DOMAIN lib.partialSignatures : lib.aggregate.val # lib.partialSignatures[n]
    /\ lib.aggregate = aggregateSignatures(<<lib.partialSignatures[2], lib.partialSignatures[1]>>
                                           \o SubSeq(lib.partialSignatures, 3, NumNodes))

\* C18: verifyThresholdSignature returns true exactly when the aggregate
\* is 32 bytes long, whatever data and publicKeys are; so every output of
\* aggregateSignatures on a list that is not empty, always 32 bytes long,
\* passes it for any data and any key set.
C18_StructuralCheckOnly ==
    /\ (lib.fn \in {"aggregateSignatures", "verifyThresholdSignature"} /\ lib.done)
          => (lib.out <=> Len(lib.aggregate.val) = DigestLength)
    /\ (Aggregated /\ Len(lib.partialSignatures) > 0)
          => (~lib.aggregate.thrown /\ Len(lib.aggregate.val) = DigestLength)
    /\ (Aggregated /\ lib.done) => lib.out

\* the aggregate of two signatures, one of them 16 bytes long, verified
\* against no signer key at all
C18_Witness ==
    /\ Aggregated /\ lib.done
    /\ Len(lib.partialSignatures) = 2
    /\ Len(lib.partialSignatures[1]) = 16
    /\ lib.publicKeys = {}
    /\ lib.out

(***************************************************************************)
(* The polling node (mpc-node/index.js).  setInterval starts a tick of     *)
(* checkForPendingValidations every 10 seconds whether or not earlier      *)
(* ticks have returned; a tick runs until its next await and resumes when  *)
(* the awaited query or transaction returns, so ticks interleave at their  *)
(* awaits.  node.tick[k] is tick k: where it waits (pc), the validation id *)
(* it is at (cur) and the ids still to come in its loop (rest).            *)
(* node.outcome[id] is what validateTransition of the node does with the   *)
(* transition of id: no envelope for this node ("none"), a rejection       *)
(* ("invalid") or a partial signature ("valid").  node.validated holds the *)
(* ids for which the contract has a validation of this node.  runs,        *)
(* signed and submitted count, per id, the runs of the validator, the      *)
(* partial signatures produced and the calls of executeContract; rejected  *)
(* holds the ids the validator has rejected, rerun those it ran on again   *)
(* after that.  The outcome "malformed" is a validation record whose       *)
(* transition cannot be read (reading it throws, every time).  listed      *)
(* counts the ticks to which the ledger listed the ids, threw holds the    *)
(* ids whose processing threw.                                             *)
(***************************************************************************)
ValidationIds == <<"v1", "v2">>

\* the node after startListening: no tick yet, nothing processed
NodeInit ==
    LET Ids == {ValidationIds[i] : i \in 1..Len(ValidationIds)}
    IN  /\ NoRun
        /\ lib = NoCall
        /\ \E outcome \in [Ids -> {"none", "invalid", "valid", "malformed"}] :
             node = [running |-> TRUE, outcome |-> outcome,
                     processedValidations |-> {}, validated |-> {},
                     started |-> 0,
                     tick |-> [k \in 1..MaxTicks |->
                                 [pc |-> "idle", cur |-> "", rest |-> <<>>]],
                     runs |-> [id \in Ids |-> 0], signed |-> [id \in Ids |-> 0],
                     submitted |-> [id \in Ids |-> 0], rejected |-> {}, rerun |-> {},
                     listed |-> 0, threw |-> {}]

RECURSIVE skipProcessed(_, _)
\* the head of the loop: if (this.processedValidations?.has(validationId)) continue
skipProcessed(ids, processed) ==
    IF Len(ids) > 0 /\ ids[1] \in processed THEN skipProcessed(Tail(ids), processed)
    ELSE ids

\* tick k goes on with the ids given, n being the node after what the tick
\* has just done: it asks for the validation of the first id that is not
\* processed and waits, or it returns when no id is left
Continue(n, k, ids) ==
    LET left == skipProcessed(ids, n.processedValidations)
    IN  node' = [n EXCEPT !.tick[k] =
                    IF Len(left) = 0 THEN [pc |-> "done", cur |-> "", rest |-> <<>>]
                    ELSE [pc |-> "getting", cur |-> left[1], rest |-> Tail(left)]]

\* the catch of checkForPendingValidations: the tick returns (n being the
\* node after what the tick has just done)
Caught(n, k) == node' = [n EXCEPT !.tick[k] = [pc |-> "done", cur |-> "", rest |-> <<>>]]

\* the timer fires: the next tick sends list_pending_validations and waits
StartTick ==
    /\ node.started < MaxTicks
    /\ node' = [node EXCEPT !.started = @ + 1,
                            !.tick[node.started + 1].pc = "listing"]
    /\ UNCHANGED <<validator, call, sent, state, shares, nums, result, caught, lib>>

\* list_pending_validations returns: the ids, none, or an error
ListReturns ==
    /\ \E k \in 1..MaxTicks :
         /\ node.tick[k].pc = "listing"
         /\ \/ Continue([node EXCEPT !.listed = @ + 1], k, ValidationIds)
            \/ Continue(node, k, <<>>)
            \/ Caught(node, k)
    /\ UNCHANGED <<validator, call, sent, state, shares, nums, result, caught, lib>>

\* a node that submits whatever the validator returned
ValidationReturnsUnguarded ==
    /\ \E k \in 1..MaxTicks :
        LET id == node.tick[k].cur
            ran == [node EXCEPT !.runs[id] = @ + 1,
                                !.rerun = IF id \in node.rejected THEN @ \cup {id} ELSE @]
        IN  /\ node.tick[k].pc = "getting"
            /\ \/ Caught([node EXCEPT !.threw = @ \cup {id}], k)
               \/ /\ id \in node.validated
                  /\ Continue(node, k, node.tick[k].rest)
               \/ /\ id \notin node.validated
                  /\ node.outcome[id] = "none"
                  /\ Continue([node EXCEPT !.processedValidations = @ \cup {id}],
                              k, node.tick[k].rest)
               \/ /\ id \notin node.validated
                  /\ node.outcome[id] = "invalid"
                  /\ Continue([ran EXCEPT !.rejected = @ \cup {id},
                                          !.processedValidations = @ \cup {id}],
                              k, node.tick[k].rest)
               \/ /\ id \notin node.validated
                  /\ node.outcome[id] \in {"invalid", "valid"}
                  /\ node' = [ran EXCEPT !.signed[id] = @ + 1,
                                         !.submitted[id] = @ + 1,
                                         !.tick[k].pc = "submitting"]
    /\ UNCHANGED <<validator, call, sent, state, shares, nums, result, caught, lib>>

\* get_validation returns, or throws, or returns a record whose transition
\* is malformed, and reading it throws; the tick skips the id when the
\* contract has a validation of this node, else it calls validateTransition:
\* no envelope for the node, a rejection, or a partial signature that
\* submitValidation sends, waiting for the transaction.  After a
\* validateTransition that returned, the id is added to processedValidations.
ValidationReturns ==
    /\ \E k \in 1..MaxTicks :
        LET id == node.tick[k].cur
            ran == [node EXCEPT !.runs[id] = @ + 1,
                                !.rerun = IF id \in node.rejected THEN @ \cup {id} ELSE @]
        IN  /\ node.tick[k].pc = "getting"
            /\ \/ Caught([node EXCEPT !.threw = @ \cup {id}], k)
               \/ /\ id \in node.validated
                  /\ Continue(node, k, node.tick[k].rest)
               \/ /\ id \notin node.validated
                  /\ node.outcome[id] = "none"
                  /\ Continue([node EXCEPT !.processedValidations = @ \cup {id}],
                              k, node.tick[k].rest)
               \/ /\ id \notin node.validated
                  /\ node.outcome[id] = "invalid"
                  /\ Continue([ran EXCEPT !.rejected = @ \cup {id},
                                          !.processedValidations = @ \cup {id}],
                              k, node.tick[k].rest)
               \/ /\ id \notin node.validated
                  /\ node.outcome[id] = "valid"
                  /\ node' = [ran EXCEPT !.signed[id] = @ + 1,
                                         !.submitted[id] = @ + 1,
                                         !.tick[k].pc = "submitting"]
    /\ UNCHANGED <<validator, call, sent, state, shares, nums, result, caught, lib>>

\* executeContract returns: the transaction went through, the contract has
\* the validation and the id is added to processedValidations; or
\* submitValidation throws, and the catch of the tick ends it
SubmitReturns ==
    /\ \E k \in 1..MaxTicks :
        LET id == node.tick[k].cur
        IN  /\ node.tick[k].pc = "submitting"
            /\ \/ Continue([node EXCEPT !.validated = @ \cup {id},
                                        !.processedValidations = @ \cup {id}],
                           k, node.tick[k].rest)
               \/ Caught([node EXCEPT !.threw = @ \cup {id}], k)
    /\ UNCHANGED <<validator, call, sent, state, shares, nums, result, caught, lib>>

NodeNext == StartTick \/ ListReturns \/ ValidationReturns \/ SubmitReturns

NodeSpec == NodeInit /\ [][NodeNext]_vars

\* C19: for each (node, validation id) pair the node produces and submits
\* a partial signature at most once, over any sequence of polling ticks,
\* overlapping ticks and ticks after a submission that threw included.
C19_SignedAtMostOnce ==
    node.running =>
        \A id \in DOMAIN node.signed : node.signed[id] <= 1 /\ node.submitted[id] <= 1

\* C20: once the validator has returned valid=false for a validation id,
\* the node never runs validation for the id again and never submits a
\* validation for it.
C20_RejectionIsFinal ==
    node.running =>
        /\ node.rerun = {}
        /\ \A id \in node.rejected : node.submitted[id] = 0

\* C31: the node submits a validation for an id only if the transition
\* has an envelope for the node and the validator returned valid=true with
\* a partial signature; with no envelope, or a rejection, nothing is
\* submitted for the id.
C31_SubmitsOnlyAccepted ==
    node.running =>
        \A id \in DOMAIN node.submitted :
            /\ node.submitted[id] > 0 => (node.outcome[id] = "valid" /\ node.signed[id] > 0)
            /\ node.outcome[id] \in {"none", "invalid"} => node.submitted[id] = 0

\* one id accepted and submitted, the others gone through without an
\* envelope or rejected
C31_Witness ==
    /\ node.running
    /\ node.outcome = [id \in DOMAIN node.outcome |->
                         IF id = ValidationIds[1] THEN "valid"
                         ELSE IF id = ValidationIds[2] THEN "none" ELSE "invalid"]
    /\ node.submitted[ValidationIds[1]] = 1
    /\ \A id \in DOMAIN node.outcome : id \in node.processedValidations

\* every tick the timer starts has returned, and the ledger listed the
\* ids to each of them
AllPollsListed ==
    /\ node.running
    /\ node.started = MaxTicks
    /\ node.listed = MaxTicks
    /\ \A k \in 1..MaxTicks : node.tick[k].pc = "done"

\* C34: a validation id whose processing throws does not block the others:
\* every other id the ledger keeps listing, whose own processing succeeds,
\* is validated by the node, in the same poll or a later one.
C34_FailureDoesNotBlockOthers ==
    AllPollsListed =>
        \A id \in DOMAIN node.outcome :
            (node.outcome[id] = "valid" /\ id \notin node.threw) => id \in node.validated

(***************************************************************************)
(* validateTransfer of the numeric validator.                              *)
(***************************************************************************)
\* validateTransfer: both envelopes are opened, then the four comparisons
\* are made and their results taken together; an exception (of decryption,
\* or of reading a field of null) becomes the reason
\* (senderEnc, recipientEnc: senderEncryptedShares, recipientEncryptedShares)
validateTransfer(v, senderEnc, recipientEnc, senderPublicKey, recipientPublicKey) ==
    LET senderDecrypted    == decryptFromSender(senderEnc, senderPublicKey, v.privateKey)
        recipientDecrypted == decryptFromSender(recipientEnc, recipientPublicKey,
                                                v.privateKey)
        senderShares    == senderDecrypted.val.obj
        recipientShares == recipientDecrypted.val.obj
        balanceValid(b) == JsStrictEq(JsAdd(b.old_balance_share, b.amount_share),
                                      b.new_balance_share)
        nonceValid(b)   == JsStrictEq(b.new_nonce_share, JsAdd(b.old_nonce_share, Num(1)))
    IN  IF senderDecrypted.thrown
        THEN [valid |-> FALSE, reason |-> ErrorReason(senderDecrypted.msg)]
        ELSE IF recipientDecrypted.thrown
        THEN [valid |-> FALSE, reason |-> ErrorReason(recipientDecrypted.msg)]
        ELSE IF senderDecrypted.val.kind = "null" \/ recipientDecrypted.val.kind = "null"
        THEN [valid |-> FALSE,
              reason |-> ErrorReason("Cannot read properties of null (reading 'old_balance_share')")]
        ELSE IF ~balanceValid(senderShares) \/ ~balanceValid(recipientShares)
                \/ ~nonceValid(senderShares) \/ ~nonceValid(recipientShares)
        THEN [valid |-> FALSE, reason |-> Reason("Transfer validation failed on shares")]
        ELSE [valid |-> TRUE, reason |-> Reason("Transfer valid on shares")]

\* the arguments: the bundles of a sender and of a recipient, each sealed
\* by its user for node i (or the recipient's plaintext the JSON text null)
InitTransfer ==
    LET bundles == { Bundle(Num(ob), Num(ob + am + e), Num(am), Num(on), Num(nn), Undef) :
                       ob \in {0, 5}, am \in {0 - 3, 3}, e \in {0, 1},
                       on \in 0..MaxNonce, nn \in 0..(MaxNonce + 1) }
    IN  /\ NoRun
        /\ node = NoNode
        /\ \E i \in 1..NumNodes, s \in bundles, r \in bundles, isNull \in BOOLEAN :
             lib = [fn |-> "validateTransfer", done |-> FALSE,
                    validator |-> Validator("numeric", i),
                    senderShares |-> s, recipientShares |-> r,
                    senderEncryptedShares |->
                        encryptForRecipient(JsonOf(s), "n0", NodeKey(i), UserKey),
                    recipientEncryptedShares |->
                        encryptForRecipient(IF isNull THEN JsonNull ELSE JsonOf(r),
                                            "n1", NodeKey(i), MalloryKey),
                    out |-> Undef]

ValidateTransfer ==
    /\ lib.fn = "validateTransfer"
    /\ Return(validateTransfer(lib.validator, lib.senderEncryptedShares,
                               lib.recipientEncryptedShares, UserKey, MalloryKey))

TransferReturned == lib.fn = "validateTransfer" /\ lib.done

\* the balance and nonce checks of validateTransition accept the bundle
PassesTransitionChecks(b) == ~balanceEquationFails(b) /\ ~nonceCheckFails(b)

\* C22: validateTransfer returns valid=true exactly when the sender bundle
\* and the recipient bundle each pass the balance and nonce checks of
\* validateTransition (the initialization exemption of the nonce check
\* included), and returns {valid, reason} only.
C22_TransferChecksAsTransition ==
    (TransferReturned /\ lib.recipientEncryptedShares.encrypted.message.kind = "object") =>
        /\ lib.out.valid <=> (PassesTransitionChecks(lib.senderShares)
                              /\ PassesTransitionChecks(lib.recipientShares))
        /\ DOMAIN lib.out = {"valid", "reason"}

(***************************************************************************)
(* The validation flow of the test suite.                                  *)
(***************************************************************************)
\* a run on a transition and a bundle as the test suite builds them: the
\* transition without VSS fields, the bundle without gamma and sealed by
\* the user for the node, new balance share = old - amount, new nonce
\* share = old + 1
TestFlowRun ==
    LET b == sent.token.encrypted.message.obj
    IN  /\ validator # NoCall
        /\ validator.variant = "numeric"
        /\ validator.nodeId \in 1..Threshold
        /\ call.transition.vss_commitments = Absent
        /\ call.transition.vss_proof_polynomial = Absent
        /\ call.encryptedShares = sent.token
        /\ b.gamma = Undef
        /\ sent.recipientPublicKey = validator.publicKey
        /\ call.senderPublicKey = sent.senderPrivateKey
        /\ sent.token.encrypted.message.kind = "object"
        /\ \A f \in {"old_balance_share", "amount_share", "old_nonce_share"} :
              b[f].k = "num" /\ b[f].hi = 0
        /\ b.amount_share.v > 0
        /\ b.new_balance_share = Num(b.old_balance_share.v - b.amount_share.v)
        /\ b.new_nonce_share = Num(b.old_nonce_share.v + 1)

\* C23: in the flow of the test suite (a send where each node's new balance
\* share is its old balance share minus its amount share and its new nonce
\* share is its old nonce share + 1, the bundle sealed for the node),
\* validateTransition at each of the 2 validating nodes returns valid=true.
C23_TestFlowValid ==
    (TestFlowRun /\ state \in Terminal) => result.valid

(***************************************************************************)
(* What one share tells about the secret.                                  *)
(***************************************************************************)
\* the share of node i would have been the same for another secret: for
\* the secret moved by k * i and the first drawn coefficient by -k (a value
\* secureRandomInt can give as well)
ShareFitsAnotherSecret(i) ==
    \E k \in {0 - 1, 1} :
        LET otherSecret == Double(lib.secret.h, lib.secret.v + k * i)
            otherDraws  == [j \in 1..Len(lib.draws) |->
                              IF j = 1 THEN lib.draws[j] - k ELSE lib.draws[j]]
            other == generateShamirSharesHex(otherSecret, lib.threshold, lib.numShares,
                                             otherDraws)
        IN  /\ \A j \in 1..Len(otherDraws) : otherDraws[j] \in 0..(ChallengeRange - 1)
            /\ otherSecret # lib.secret
            /\ other.shares[i] = lib.out.shares[i]

\* C24: for every threshold t <= n the splitter accepts (t = 1 included)
\* and every node i, the share handed to node i is consistent with at least
\* two different secrets: it does not determine the secret.
C24_ShareHidesSecret ==
    (lib.fn = "generateShamirShares" /\ lib.done /\ lib.secret.h = 0) =>
        \A i \in 1..lib.numShares : ShareFitsAnotherSecret(i)

(***************************************************************************)
(* The hashes over the shares, computed before signing.                    *)
(***************************************************************************)
\* C27: for every bundle that passed decryption, the VSS check, the balance
\* equation and the nonce check, whatever its share values, the two
\* hashShares calls do not turn the result into a rejection: the run ends
\* with valid=true.
C27_HashSharesNeverRejects ==
    (Done /\ validator.variant = "numeric" /\ Decrypted
          /\ FirstFailure(SentBundle) = "none") => result.valid

(***************************************************************************)
(* sendTokens of the frontend: the share bundles of a send.                *)
(***************************************************************************)
\* the shareData objects sendTokens builds, one per node, with the random
\* draws given (po, pn: coefficients of the two balance polynomials; ra,
\* rn: the values of Math.random for the amount and the nonce shares; the
\* blinding coefficients and the gammas, which no share depends on, fixed),
\* and the nonce shares it made them from
sendTokens(userBalance, amount, userNonce, numNodes, po, pn, ra, rn) ==
    LET oldBalanceVSS  == generateVSSProof(Num(userBalance), po, [j \in 1..Len(po) |-> 0],
                                           [i \in 1..numNodes |-> 3],
                                           numNodes)
        newBalance     == userBalance - amount
        newBalanceVSS  == generateVSSProof(Num(newBalance), pn, [j \in 1..Len(pn) |-> 1],
                                           [i \in 1..numNodes |-> 3],
                                           numNodes)
        amountShares   == createSecretShares(Double(0, amount), numNodes, Threshold, ra)
        oldNonceShares == createSecretShares(Double(0, userNonce), numNodes, Threshold, rn)
        newNonceShares == [i \in 1..numNodes |->
                             Double(oldNonceShares[i].h, oldNonceShares[i].v + 1)]
    IN  [shareData |-> [i \in 1..numNodes |->
                          Bundle(oldBalanceVSS.shares[i],
                                 newBalanceVSS.shares[i],
                                 Num(0 - amountShares[i].v),
                                 Num(oldNonceShares[i].v),
                                 Num(newNonceShares[i].v),
                                 newBalanceVSS.gammas[i])],
         oldNonceShares |-> oldNonceShares,
         newNonceShares |-> newNonceShares]

\* a balance of 10, an amount of 3 or 10, a nonce up to MaxNonce, the
\* threshold of the contract state
InitSend ==
    /\ NoRun
    /\ node = NoNode
    /\ \E amount \in {3, 10}, userNonce \in 0..MaxNonce, n \in NumNodes..(NumNodes + 1) :
        \E po \in [1..(Threshold - 1) -> {0 - 1, 0, 1}],
           pn \in [1..(Threshold - 1) -> {0 - 1, 0, 1}],
           ra \in [1..(n - 1) -> {0, 2}], rn \in [1..(n - 1) -> {0 - 1, 0}] :
          lib = [fn |-> "sendTokens", done |-> FALSE, userBalance |-> 10,
                 amount |-> amount, userNonce |-> userNonce, numNodes |-> n,
                 po |-> po, pn |-> pn, ra |-> ra, rn |-> rn, out |-> Undef]

SendTokens ==
    /\ lib.fn = "sendTokens"
    /\ Return(sendTokens(lib.userBalance, lib.amount, lib.userNonce, lib.numNodes,
                         lib.po, lib.pn, lib.ra, lib.rn))

SendBuilt == lib.fn = "sendTokens" /\ lib.done

\* C28: every bundle of a send built by sendTokens satisfies
\* old_balance_share + amount_share = new_balance_share (amount_share the
\* negated amount share) and new_nonce_share = old_nonce_share + 1: the
\* balance and nonce checks of validateTransition pass at every node.
C28_SendBundlesPassChecks ==
    SendBuilt =>
        \A i \in 1..lib.numNodes :
            /\ ~balanceEquationFails(lib.out.shareData[i])
            /\ ~nonceCheckFails(lib.out.shareData[i])

\* C29: with each nonce share incremented by 1, the nonce reconstructed
\* from the new shares is the old nonce + 1, for every number of shares.
C29_NonceSharesIncrement ==
    SendBuilt =>
        /\ reconstructSecret(lib.out.oldNonceShares) = Double(0, lib.userNonce)
        /\ reconstructSecret(lib.out.newNonceShares) = Double(0, lib.userNonce + 1)

(***************************************************************************)
(* The first deposit in the hex-share variant, end to end.                 *)
(***************************************************************************)
\* a run of the hex-share validator on a transition whose proof polynomial
\* is hex-encoded, with the bundle of a first deposit sealed by the user
HexDepositRun ==
    /\ validator # NoCall
    /\ validator.variant = "hex"
    /\ call.transition.vss_proof_polynomial.k = "list"
    /\ \A k \in DOMAIN call.transition.vss_proof_polynomial.items :
          call.transition.vss_proof_polynomial.items[k].k = "str"
    /\ call.encryptedShares = sent.token
    /\ SentBundle.old_balance_share = Str(<<"0">>)
    /\ SentBundle.new_nonce_share = Str(<<"0">>)

\* C30: for an honest first deposit built by the hex-encoding prover, the
\* hex-share validateTransition at every node returns valid=true.
C30_HexDepositAccepted ==
    (HexDepositRun /\ Done) => result.valid

\* C32: validateTransfer returns valid=true only if, on this node's
\* shares, the recipient's amount_share is the negation of the sender's
\* amount_share.
C32_TransferAmountsOpposite ==
    (TransferReturned /\ lib.out.valid) =>
        lib.recipientShares.amount_share
            = NumSub(Num(0), lib.senderShares.amount_share)

(***************************************************************************)
(* The balance equation on the shares of all nodes, and on the values      *)
(* their shares add up to.                                                 *)
(***************************************************************************)
\* the balance shares of the bundles of all nodes: per node an old balance
\* share around 0 or at 2^53 in magnitude, an amount share, and a new
\* balance share that is their sum as JavaScript adds them, or is not; the
\* sums of the shares stay below 2^54 in magnitude
InitBalanceShares ==
    LET triples == { [old |-> o, amount |-> a, new |-> n] :
                       o \in {Double(0, 0), Double(0, 5), Double(1, 0), Double(0 - 1, 0)},
                       a \in {Double(0, 1), Double(0, 0 - 3)},
                       n \in {Double(0, 7)} }
                   \cup { [old |-> o, amount |-> a,
                           new |-> Double(o.h + a.h, o.v + a.v)] :
                       o \in {Double(0, 0), Double(0, 5), Double(1, 0), Double(0 - 1, 0)},
                       a \in {Double(0, 1), Double(0, 0 - 3)} }
    IN  /\ NoRun
        /\ node = NoNode
        /\ \E bundles \in [1..NumNodes -> triples] :
             /\ \A k \in 1..NumNodes :
                  /\ SumOver([i \in 1..k |-> bundles[i].old.h], k) \in (0 - 1)..1
                  /\ SumOver([i \in 1..k |-> bundles[i].new.h], k) \in (0 - 1)..1
             /\ lib = [fn |-> "balanceShares", done |-> FALSE, bundles |-> bundles,
                       out |-> Undef]

\* each node's check old_balance_share + amount_share !== new_balance_share
\* on its own bundle, and reconstructSecret over the shares of all nodes
\* (which no node computes)
ReconstructBalances ==
    /\ lib.fn = "balanceShares"
    /\ LET b == lib.bundles
       IN  Return([passes |-> [i \in DOMAIN b |->
                                 Double(b[i].old.h + b[i].amount.h,
                                        b[i].old.v + b[i].amount.v) = b[i].new],
                   old    |-> reconstructSecret([i \in DOMAIN b |-> b[i].old]),
                   amount |-> reconstructSecret([i \in DOMAIN b |-> b[i].amount]),
                   new    |-> reconstructSecret([i \in DOMAIN b |-> b[i].new])])

\* C33: if the bundles of all nodes pass the balance check on their shares,
\* the values the shares add up to satisfy old_balance + amount =
\* new_balance.
C33_ShareChecksImplySecretRelation ==
    (lib.fn = "balanceShares" /\ lib.done /\ \A i \in DOMAIN lib.out.passes : lib.out.passes[i]) =>
        Double(lib.out.old.h + lib.out.amount.h, lib.out.old.v + lib.out.amount.v)
            = lib.out.new

(***************************************************************************)
(* The hex encoding of the prover, read back by the node.                  *)
(***************************************************************************)
\* the numbers the hex-encoding prover encodes: a share or a gamma (not
\* negative), or a coefficient R_k + d * P_k of the proof polynomial with a
\* challenge d of either sign
InitHexEncode ==
    /\ NoRun
    /\ node = NoNode
    /\ \/ \E kind \in {"share", "gamma"}, value \in {0, 1, 9, 255, 1000, 999999} :
            lib = [fn |-> "hexRoundTrip", done |-> FALSE, kind |-> kind,
                   value |-> value, out |-> Undef]
       \/ \E R \in {0, 1, 999999}, P \in {0, 1, 7, 1000},
             d \in {0 - (ChallengeRange - 1), 0 - 98098, 0 - 1, 0, 5, ChallengeRange - 1} :
            lib = [fn |-> "hexRoundTrip", done |-> FALSE, kind |-> "coefficient",
                   value |-> R + d * P, out |-> Undef]

\* value.toString(16).padStart(16, '0'), then hexShareToNumber
HexRoundTrip ==
    /\ lib.fn = "hexRoundTrip"
    /\ Return(hexShareToNumber(toHexShare(lib.value)))

\* C35: every number the hex-encoding prover encodes (shares, gammas and
\* coefficients of the proof polynomial, the challenge being of either
\* sign) is decoded by hexShareToNumber to the same number.
C35_HexRoundTrip ==
    (lib.fn = "hexRoundTrip" /\ lib.done) => lib.out = Ok(Num(lib.value))

\* the specification of the library calls: one call, of any of the functions
LibInit == InitRoundTrip \/ InitVerifyShare \/ InitAdditive \/ InitShamir \/ InitThreshold
           \/ InitHexEncode
           \/ InitBalanceShares
           \/ InitSend
           \/ InitTransfer

LibNext ==
    \/ RoundTrip
    \/ VerifyShare
    \/ CreateSecretShares
    \/ ReconstructSecret
    \/ GenerateShamirShares
    \/ AggregateSignatures
    \/ ValidateTransfer
    \/ SendTokens
    \/ ReconstructBalances
    \/ HexRoundTrip
    \/ VerifyThresholdSignature

LibSpec == LibInit /\ [][LibNext]_vars

(***************************************************************************)
(* The wallet page (frontend/app.js, frontend/vss.js): userBalance,        *)
(* userNonce and the entry mpc_state_<address> of localStorage, as the     *)
(* three form handlers leave them.  A handler runs up to its catch; what   *)
(* the contract query, the broadcast and localStorage.setItem answer is    *)
(* the choice of the environment:                                          *)
(*   "thrown"        the query, the node count or the broadcast throws     *)
(*   "txFailed"      the broadcast answers tx.code !== 0                   *)
(*   "storageFailed" tx.code === 0 and localStorage.setItem throws         *)
(*   "ok"            tx.code === 0 and the state is stored                 *)
(* lib.op, lib.amount, lib.outcome and lib.before keep the last handler    *)
(* run, its form value and the wallet as it was before the run.            *)
(***************************************************************************)
\* the number of form submissions explored
MaxCalls == 2

\* the page once loaded: let userBalance = null; let userNonce = 0; nothing stored
InitWallet ==
    /\ NoRun
    /\ node = NoNode
    /\ lib = [fn |-> "wallet", userBalance |-> Null, userNonce |-> 0,
              stored |-> [present |-> FALSE, balance |-> Null, nonce |-> 0],
              submitted |-> 0, calls |-> 0, op |-> "", amount |-> Null, outcome |-> "",
              before |-> [userBalance |-> Null, userNonce |-> 0, submitted |-> 0,
                          stored |-> [present |-> FALSE, balance |-> Null, nonce |-> 0]]]

\* window.initializeBalance: parseInt of the form field, no test of the value
InitializeBalance ==
    /\ lib.fn = "wallet"
    /\ lib.calls < MaxCalls
    /\ \E initialBalance \in {NaN, Num(0 - 5), Num(0), Num(3), Num(5)},
          outcome \in {"thrown", "txFailed", "storageFailed", "ok"} :
         lib' = [lib EXCEPT
            !.userBalance = IF outcome \in {"storageFailed", "ok"} THEN initialBalance ELSE @,
            !.userNonce = IF outcome \in {"storageFailed", "ok"} THEN 0 ELSE @,
            !.stored = IF outcome = "ok"
                       THEN [present |-> TRUE, nonce |-> 0,
                             balance |-> IF initialBalance = NaN THEN Null ELSE initialBalance]
                       ELSE @,
            !.submitted = IF outcome = "thrown" THEN @ ELSE @ + 1,
            !.calls = @ + 1,
            !.op = "initializeBalance", !.amount = initialBalance, !.outcome = outcome,
            !.before = [userBalance |-> lib.userBalance, userNonce |-> lib.userNonce,
                        submitted |-> lib.submitted, stored |-> lib.stored]]
    /\ UNCHANGED <<validator, call, sent, state, shares, nums, result, caught, node>>

\* window.deposit: the same steps with the deposit amount
Deposit ==
    /\ lib.fn = "wallet"
    /\ lib.calls < MaxCalls
    /\ \E depositAmount \in {NaN, Num(0 - 5), Num(0), Num(3), Num(5)},
          outcome \in {"thrown", "txFailed", "storageFailed", "ok"} :
         lib' = [lib EXCEPT
            !.userBalance = IF outcome \in {"storageFailed", "ok"} THEN depositAmount ELSE @,
            !.userNonce = IF outcome \in {"storageFailed", "ok"} THEN 0 ELSE @,
            !.stored = IF outcome = "ok"
                       THEN [present |-> TRUE, nonce |-> 0,
                             balance |-> IF depositAmount = NaN THEN Null ELSE depositAmount]
                       ELSE @,
            !.submitted = IF outcome = "thrown" THEN @ ELSE @ + 1,
            !.calls = @ + 1,
            !.op = "deposit", !.amount = depositAmount, !.outcome = outcome,
            !.before = [userBalance |-> lib.userBalance, userNonce |-> lib.userNonce,
                        submitted |-> lib.submitted, stored |-> lib.stored]]
    /\ UNCHANGED <<validator, call, sent, state, shares, nums, result, caught, node>>

\* window.sendTokens: if (!userBalance || userBalance < amount) throw
\* 'Insufficient balance'; after tx.code === 0, userBalance -= amount and
\* userNonce += 1, then the state is stored
WalletSendTokens ==
    /\ lib.fn = "wallet"
    /\ lib.calls < MaxCalls
    /\ \E amount \in {NaN, Num(0 - 7), Num(0), Num(3), Num(5), Num(8)},
          outcome \in {"insufficient", "thrown", "txFailed", "storageFailed", "ok"} :
         LET userBalance == lib.userBalance
             insufficient ==
                 \/ userBalance.k \in {"null", "nan"}
                 \/ userBalance.v = 0
                 \/ amount.k = "num" /\ userBalance.v < amount.v
             newBalance == IF amount.k = "nan" THEN NaN ELSE Num(userBalance.v - amount.v)
         IN  /\ (outcome = "insufficient") <=> insufficient
             /\ lib' = [lib EXCEPT
                  !.userBalance = IF outcome \in {"storageFailed", "ok"} THEN newBalance ELSE @,
                  !.userNonce = IF outcome \in {"storageFailed", "ok"} THEN @ + 1 ELSE @,
                  !.stored = IF outcome = "ok"
                             THEN [present |-> TRUE, nonce |-> lib.userNonce + 1,
                                   balance |-> IF newBalance = NaN THEN Null ELSE newBalance]
                             ELSE @,
                  !.submitted = IF outcome \in {"insufficient", "thrown"} THEN @ ELSE @ + 1,
                  !.calls = @ + 1,
                  !.op = "sendTokens", !.amount = amount, !.outcome = outcome,
                  !.before = [userBalance |-> lib.userBalance, userNonce |-> lib.userNonce,
                              submitted |-> lib.submitted, stored |-> lib.stored]]
    /\ UNCHANGED <<validator, call, sent, state, shares, nums, result, caught, node>>

\* the wallet page: any sequence of the three handlers
WalletSpec == InitWallet /\ [][InitializeBalance \/ Deposit \/ WalletSendTokens]_vars

\* the last handler run ended in its catch block
HandlerFailed == lib.outcome \in {"insufficient", "thrown", "txFailed", "storageFailed"}

\* the wallet is as it was before the last handler run
WalletUnchanged ==
    /\ lib.userBalance = lib.before.userBalance
    /\ lib.userNonce = lib.before.userNonce
    /\ lib.stored = lib.before.stored

\* C37: the wallet's balance is never negative; sendTokens with an amount
\* above userBalance, or with no balance, fails with 'Insufficient balance'
\* and submits nothing; and a handler that fails (an error thrown, or
\* tx.code != 0) leaves userBalance, userNonce and the stored state as
\* they were.
C37_WalletBalanceSafe ==
    (lib.fn = "wallet" /\ lib.calls > 0) =>
        /\ ~(lib.userBalance.k = "num" /\ lib.userBalance.v < 0)
        /\ ( /\ lib.op = "sendTokens"
             /\ \/ lib.before.userBalance.k \in {"null", "nan"}
                \/ lib.before.userBalance.v = 0
                \/ lib.amount.k = "num" /\ lib.amount.v > lib.before.userBalance.v )
           => (lib.outcome = "insufficient" /\ lib.submitted = lib.before.submitted)
        /\ HandlerFailed => WalletUnchanged

=============================================================================
